---- MODULE Spec2Model ----
(***************************************************************************)
(* Paint-shop conveyor sequencer (src/simulator.py).                       *)
(*                                                                         *)
(* Two engines run in lock-step on one colour stream: ConveyorSystem (the  *)
(* optimized engine, with the O2 temporary buffer) and                     *)
(* SimpleRoundRobinConveyorSystem (the baseline).  One tick is             *)
(* run_single_cycle; it is modelled as the sequence of its calls, one      *)
(* action per call, with the position held in pc.  The operator toggles    *)
(* the input/output gates of the optimized engine's lines between ticks.   *)
(*                                                                         *)
(* Lines are numbered 1..NumLines ("L1".."L9" in the source), colours      *)
(* 1..NumColors ("C1".."C12").  Python's None is 0.                        *)
(***************************************************************************)
EXTENDS Integers, Sequences, FiniteSets, TLC

\* ------------------------------------------------------------------
\* Bounds of the model (the source values are given for each)
\* ------------------------------------------------------------------
\* number of lines of the O1 group (source: 4, L1..L4)
NumO1 == 2
\* number of lines of the O2 group (source: 5, L5..L9)
NumO2 == 2
\* capacity of an O1-group line (source: 14)
CapO1 == 1
\* capacity of an O2-group line (source: 16)
CapO2 == 2
\* number of colours (source: 12)
NumColors == 2
\* number of ticks explored
MaxTicks == 5
\* number of gate toggles explored
MaxToggles == 1
\* number of whole-group gate settings explored (SpecDeep)
MaxGroupToggles == 2
\* lines of the O2 group in the bank of SpecRR
RRLines == 3
\* capacity of every line of that bank
RRCap == 2
\* number of O2 lines of the bank given to find_buffer_to_break (SpecBreak)
BreakLines == 2
\* capacity of the lines of that bank
BreakCap == 3
\* largest total_processed given to update_jph (SpecJph)
MaxJphProcessed == 8
\* largest total_penalty_time given to update_jph (SpecJph)
MaxJphPenalty == 6

\* ------------------------------------------------------------------
\* Configuration
\* ------------------------------------------------------------------
None == 0
TMP_BUFFER == -1
PROCESSING_TIME_PER_VEHICLE == 1
PENALTY_TIME_O1_L5_L9 == 1
PENALTY_TIME_COLOR_CHANGE == 1

ALL_COLORS == 1..NumColors

\* BUFFER_CONFIG of a bank with n1 O1 lines of capacity c1 followed by
\* n2 O2 lines of capacity c2
BufferConfig(n1, c1, n2, c2) ==
  [i \in 1..(n1 + n2) |->
     IF i <= n1 THEN [capacity |-> c1, oven |-> "O1"]
                ELSE [capacity |-> c2, oven |-> "O2"]]

VARIABLES
  BUFFER_CONFIG,   \* the bank's configuration (fixed after Init)
  system,          \* the ConveyorSystem object
  rr,              \* the SimpleRoundRobinConveyorSystem object
  pc,              \* position inside run_single_cycle ("idle" between ticks)
  loc,             \* locals of run_single_cycle
  hist,            \* history of what the calls did (observation only)
  ticks,           \* ticks started
  toggles          \* gate toggles done

vars == <<BUFFER_CONFIG, system, rr, pc, loc, hist, ticks, toggles>>

NumLines == Len(BUFFER_CONFIG)
Lines == 1..NumLines

\* the i-th..j-th integers as a sequence
Range(i, j) == [k \in 1..(j - i + 1) |-> i + k - 1]

BuffersOf(oven) ==
  SelectSeq(Range(1, NumLines), LAMBDA i : BUFFER_CONFIG[i].oven = oven)

O1_BUFFERS == BuffersOf("O1")
O2_BUFFERS == BuffersOf("O2")

InSeq(x, s) == \E i \in 1..Len(s) : s[i] = x

\* first element of seq that is in the set S, or None
FirstSuch(seq, S) ==
  IF \E i \in 1..Len(seq) : seq[i] \in S
    THEN seq[CHOOSE i \in 1..Len(seq) :
                seq[i] \in S /\ \A j \in 1..(i - 1) : seq[j] \notin S]
    ELSE None

\* ------------------------------------------------------------------
\* VehicleBody, BufferLine
\* ------------------------------------------------------------------
VehicleBody(body_id, color, source_oven) ==
  [body_id |-> body_id, color |-> color, source_oven |-> source_oven]

NoBody == [body_id |-> 0, color |-> 0, source_oven |-> "none"]

BufferLine(line_id, capacity) ==
  [line_id |-> line_id, capacity |-> capacity, queue |-> <<>>,
   is_available_input |-> TRUE, is_available_output |-> TRUE]

is_full(buf) == Len(buf.queue) >= buf.capacity

is_empty(buf) == Len(buf.queue) = 0

\* add_body_line without the test of the input gate
add_body_line_nogate(buf, body) ==
  IF Len(buf.queue) >= buf.capacity
    THEN buf
    ELSE [buf EXCEPT !.queue = Append(@, body)]

\* add_body: the line afterwards; the body is appended unless the input
\* gate is closed or the line is at capacity
add_body_line(buf, body) ==
  IF ~buf.is_available_input \/ Len(buf.queue) >= buf.capacity
    THEN buf
    ELSE [buf EXCEPT !.queue = Append(@, body)]

\* add_body: its boolean result
add_body_ok(buf, body) ==
  ~(~buf.is_available_input \/ Len(buf.queue) >= buf.capacity)

\* remove_body_ret returning the newest body (pop() for popleft())
remove_body_ret_newest(buf) ==
  IF ~buf.is_available_output \/ Len(buf.queue) = 0
    THEN NoBody
    ELSE buf.queue[Len(buf.queue)]

\* remove_body: the body returned (NoBody for None)
remove_body_ret(buf) ==
  IF ~buf.is_available_output \/ Len(buf.queue) = 0
    THEN NoBody
    ELSE Head(buf.queue)

\* remove_body: the line afterwards
remove_body_line(buf) ==
  IF ~buf.is_available_output \/ Len(buf.queue) = 0
    THEN buf
    ELSE [buf EXCEPT !.queue = Tail(@)]

peek_head(buf) == IF Len(buf.queue) = 0 THEN NoBody ELSE buf.queue[1]

get_remaining_capacity(buf) == buf.capacity - Len(buf.queue)

\* ------------------------------------------------------------------
\* ConveyorSystem (optimized engine)
\* ------------------------------------------------------------------
\* the value num / den of a float field (den > 0)
Ratio(num, den) == [num |-> num, den |-> den]

\* NewBufferLines with the boundary between the two ranges one line early
\* (the last O1 line built with the O2 capacity)
NewBufferLinesShifted(cfg) ==
  LET n1 == Cardinality({i \in DOMAIN cfg : cfg[i].oven = "O1"})
  IN [i \in DOMAIN cfg |->
        BufferLine(i, IF i < n1 THEN cfg[1].capacity
                                ELSE cfg[Len(cfg)].capacity)]

\* __init__ of both engines: the lines of the bank. The source builds the
\* O1 lines (range(1, 5)) with one capacity and the O2 lines
\* (range(5, 10)) with the other.
NewBufferLines(cfg) ==
  LET n1 == Cardinality({i \in DOMAIN cfg : cfg[i].oven = "O1"})
  IN [i \in DOMAIN cfg |->
        BufferLine(i, IF i <= n1 THEN cfg[1].capacity
                                 ELSE cfg[Len(cfg)].capacity)]

NewConveyorSystem(cfg) ==
  [buffer_lines |-> NewBufferLines(cfg),
   main_conveyor_last_color |-> None,
   color_changeovers |-> 0,
   total_processed |-> 0,
   body_counter |-> 0,
   penaltyCount |-> 0,
   o2Stopped |-> FALSE,
   main_conveyor_sequence |-> <<>>,
   o2_temp_buffer |-> <<>>,
   total_penalty_time |-> 0,
   jph |-> Ratio(0, 1)]

\* update_jph that leaves the base processing time out
update_jph_nobase(sys) ==
  [sys EXCEPT !.jph = IF sys.total_penalty_time > 0
                        THEN Ratio(sys.total_processed * 3600, sys.total_penalty_time)
                        ELSE Ratio(0, 1)]

\* update_jph that recomputes nothing
update_jph_stale(sys) == sys

\* update_jph (the same code in both classes): the float
\* (total_processed / total_effective_time) * 3600 is kept as the exact
\* quotient num / den
update_jph(sys) ==
  LET base_processing_time == sys.total_processed * PROCESSING_TIME_PER_VEHICLE
      total_effective_time == base_processing_time + sys.total_penalty_time
  IN [sys EXCEPT !.jph = IF total_effective_time > 0
                           THEN Ratio(sys.total_processed * 3600, total_effective_time)
                           ELSE Ratio(0, 1)]

get_rear_color(sys, bid) ==
  LET buf == sys.buffer_lines[bid].queue
  IN IF Len(buf) > 0 THEN buf[Len(buf)].color ELSE None

\* number of trailing bodies of queue q[1..n] whose colour is rear
RECURSIVE RearRun(_, _, _)
RearRun(q, n, rear) ==
  IF n = 0 \/ q[n].color # rear THEN 0 ELSE 1 + RearRun(q, n - 1, rear)

get_rear_color_group_size(sys, bid) ==
  LET buf == sys.buffer_lines[bid].queue
  IN IF Len(buf) = 0 THEN 0 ELSE RearRun(buf, Len(buf), buf[Len(buf)].color)

is_fully_of_color(sys, bid, color) ==
  LET buf == sys.buffer_lines[bid].queue
  IN Len(buf) > 0 /\ \A i \in 1..Len(buf) : buf[i].color = color

ends_with_color(sys, bid, color) == get_rear_color(sys, bid) = color

get_space(sys, bid) == get_remaining_capacity(sys.buffer_lines[bid])

\* place_vehicle: the system afterwards (the boolean of add_body is
\* returned to callers that all ignore it)
place_vehicle(sys, bid, body) ==
  [sys EXCEPT !.buffer_lines[bid] = add_body_line(@, body)]

\* f1 as a single pass: the first line that satisfies any of the rules
f1_single_pass(sys, buffer_ids, color) ==
  LET p == {bid \in DOMAIN sys.buffer_lines :
               \/ /\ sys.buffer_lines[bid].is_available_input
                  /\ is_fully_of_color(sys, bid, color)
                  /\ ~is_full(sys.buffer_lines[bid])
               \/ /\ ends_with_color(sys, bid, color)
                  /\ ~is_full(sys.buffer_lines[bid])
               \/ /\ sys.buffer_lines[bid].is_available_input
                  /\ is_empty(sys.buffer_lines[bid])}
  IN FirstSuch(buffer_ids, p)

f1(sys, buffer_ids, color) ==
  LET p1 == {bid \in DOMAIN sys.buffer_lines :
                 /\ sys.buffer_lines[bid].is_available_input
                 /\ is_fully_of_color(sys, bid, color)
                 /\ ~is_full(sys.buffer_lines[bid])}
      p2 == {bid \in DOMAIN sys.buffer_lines :
                 /\ ends_with_color(sys, bid, color)
                 /\ ~is_full(sys.buffer_lines[bid])}
      p3 == {bid \in DOMAIN sys.buffer_lines :
                 /\ sys.buffer_lines[bid].is_available_input
                 /\ is_empty(sys.buffer_lines[bid])}
      r1 == FirstSuch(buffer_ids, p1)
      r2 == FirstSuch(buffer_ids, p2)
      r3 == FirstSuch(buffer_ids, p3)
  IN IF r1 # None THEN r1
     ELSE IF r2 # None THEN r2
     ELSE r3

\* find_buffer_to_break whose sort key is the rear group size alone
find_buffer_to_break_nospace(sys, buffer_ids, color) ==
  LET cand(i) == /\ sys.buffer_lines[buffer_ids[i]].is_available_input
                 /\ ~is_full(sys.buffer_lines[buffer_ids[i]])
      group_sz(i) == get_rear_color_group_size(sys, buffer_ids[i])
      before(i, j) == \/ group_sz(i) < group_sz(j)
                      \/ group_sz(i) = group_sz(j) /\ i <= j
      C == {i \in 1..Len(buffer_ids) : cand(i)}
  IN IF C = {} THEN None
     ELSE buffer_ids[CHOOSE i \in C : \A j \in C : before(i, j)]

\* candidates.sort(key=(group_sz, -space)) is stable: among equal keys the
\* earlier line of buffer_ids comes first
find_buffer_to_break(sys, buffer_ids, color) ==
  LET cand(i) == /\ sys.buffer_lines[buffer_ids[i]].is_available_input
                 /\ ~is_full(sys.buffer_lines[buffer_ids[i]])
      group_sz(i) == get_rear_color_group_size(sys, buffer_ids[i])
      space(i) == get_space(sys, buffer_ids[i])
      before(i, j) == \/ group_sz(i) < group_sz(j)
                      \/ group_sz(i) = group_sz(j) /\ space(i) > space(j)
                      \/ group_sz(i) = group_sz(j) /\ space(i) = space(j) /\ i <= j
      C == {i \in 1..Len(buffer_ids) : cand(i)}
  IN IF C = {} THEN None
     ELSE buffer_ids[CHOOSE i \in C : \A j \in C : before(i, j)]

\* O1Cross that leaves o2Stopped as it is
O1Cross_nostop(sys, bid, body) ==
  [sys |-> [place_vehicle(sys, bid, body) EXCEPT
              !.penaltyCount = @ + 1,
              !.total_penalty_time = @ + PENALTY_TIME_O1_L5_L9],
   ret |-> <<bid, TRUE, TRUE>>]

\* The placement calls return [sys |-> system afterwards, ret |-> result].
\* place_for_o1, lines 384-390 and 399-405: the body goes to a line of the
\* O2 group
O1Cross(sys, bid, body) ==
  [sys |-> [place_vehicle(sys, bid, body) EXCEPT
              !.penaltyCount = @ + 1,
              !.o2Stopped = TRUE,
              !.total_penalty_time = @ + PENALTY_TIME_O1_L5_L9],
   ret |-> <<bid, TRUE, TRUE>>]

\* place_for_o1 that tries both searches in the O1 group first
place_for_o1_o1_first(sys0, body) ==
  LET sys == [sys0 EXCEPT !.o2Stopped = FALSE]
      b1 == f1(sys, O1_BUFFERS, body.color)
      b2 == f1(sys, O2_BUFFERS, body.color)
      b3 == find_buffer_to_break(sys, O1_BUFFERS, body.color)
      b4 == find_buffer_to_break(sys, O2_BUFFERS, body.color)
  IN IF b1 # None THEN
       [sys |-> place_vehicle(sys, b1, body), ret |-> <<b1, FALSE, FALSE>>]
     ELSE IF b3 # None THEN
       [sys |-> place_vehicle(sys, b3, body), ret |-> <<b3, FALSE, FALSE>>]
     ELSE IF b2 # None THEN O1Cross(sys, b2, body)
     ELSE IF b4 # None THEN O1Cross(sys, b4, body)
     ELSE [sys |-> sys, ret |-> <<None, FALSE, FALSE>>]

place_for_o1(sys0, body) ==
  LET sys == [sys0 EXCEPT !.o2Stopped = FALSE]
      b1 == f1(sys, O1_BUFFERS, body.color)
      b2 == f1(sys, O2_BUFFERS, body.color)
      b3 == find_buffer_to_break(sys, O1_BUFFERS, body.color)
      b4 == find_buffer_to_break(sys, O2_BUFFERS, body.color)
  IN IF b1 # None THEN
       [sys |-> place_vehicle(sys, b1, body), ret |-> <<b1, FALSE, FALSE>>]
     ELSE IF b2 # None THEN O1Cross(sys, b2, body)
     ELSE IF b3 # None THEN
       [sys |-> place_vehicle(sys, b3, body), ret |-> <<b3, FALSE, FALSE>>]
     ELSE IF b4 # None THEN O1Cross(sys, b4, body)
     ELSE [sys |-> sys, ret |-> <<None, FALSE, FALSE>>]

\* place_for_o2 that looks at the temporary buffer only
place_for_o2_temp_only(sys, body) ==
  LET b1 == f1(sys, O2_BUFFERS, body.color)
      b2 == find_buffer_to_break(sys, O2_BUFFERS, body.color)
  IN IF Len(sys.o2_temp_buffer) > 0 THEN
       [sys |-> [sys EXCEPT !.o2_temp_buffer = Append(@, body)],
        ret |-> TMP_BUFFER]
     ELSE IF b1 # None THEN [sys |-> place_vehicle(sys, b1, body), ret |-> b1]
     ELSE IF b2 # None THEN [sys |-> place_vehicle(sys, b2, body), ret |-> b2]
     ELSE [sys |-> sys, ret |-> None]

\* place_for_o2 that looks at o2Stopped only
place_for_o2_stopped_only(sys, body) ==
  LET b1 == f1(sys, O2_BUFFERS, body.color)
      b2 == find_buffer_to_break(sys, O2_BUFFERS, body.color)
  IN IF sys.o2Stopped THEN
       [sys |-> [sys EXCEPT !.o2_temp_buffer = Append(@, body)],
        ret |-> TMP_BUFFER]
     ELSE IF b1 # None THEN [sys |-> place_vehicle(sys, b1, body), ret |-> b1]
     ELSE IF b2 # None THEN [sys |-> place_vehicle(sys, b2, body), ret |-> b2]
     ELSE [sys |-> sys, ret |-> None]

\* place_for_o2 that falls back to the O1 group when no line of the O2
\* group takes the body
place_for_o2_fallback(sys, body) ==
  LET b1 == f1(sys, O2_BUFFERS, body.color)
      b2 == find_buffer_to_break(sys, O2_BUFFERS, body.color)
      b3 == f1(sys, O1_BUFFERS, body.color)
  IN IF sys.o2Stopped \/ Len(sys.o2_temp_buffer) > 0 THEN
       [sys |-> [sys EXCEPT !.o2_temp_buffer = Append(@, body)],
        ret |-> TMP_BUFFER]
     ELSE IF b1 # None THEN [sys |-> place_vehicle(sys, b1, body), ret |-> b1]
     ELSE IF b2 # None THEN [sys |-> place_vehicle(sys, b2, body), ret |-> b2]
     ELSE IF b3 # None THEN [sys |-> place_vehicle(sys, b3, body), ret |-> b3]
     ELSE [sys |-> sys, ret |-> None]

place_for_o2(sys, body) ==
  LET b1 == f1(sys, O2_BUFFERS, body.color)
      b2 == find_buffer_to_break(sys, O2_BUFFERS, body.color)
  IN IF sys.o2Stopped \/ Len(sys.o2_temp_buffer) > 0 THEN
       [sys |-> [sys EXCEPT !.o2_temp_buffer = Append(@, body)],
        ret |-> TMP_BUFFER]
     ELSE IF b1 # None THEN [sys |-> place_vehicle(sys, b1, body), ret |-> b1]
     ELSE IF b2 # None THEN [sys |-> place_vehicle(sys, b2, body), ret |-> b2]
     ELSE [sys |-> sys, ret |-> None]

\* process_o2_temp_buffer that does not put the body back on failure
process_o2_temp_buffer_drop(sys0) ==
  IF Len(sys0.o2_temp_buffer) = 0 \/ sys0.o2Stopped THEN
    [sys |-> sys0, ret |-> <<NoBody, None>>]
  ELSE
    LET body == Head(sys0.o2_temp_buffer)
        sys == [sys0 EXCEPT !.o2_temp_buffer = Tail(@)]
        b1 == f1(sys, O2_BUFFERS, body.color)
        b2 == find_buffer_to_break(sys, O2_BUFFERS, body.color)
    IN IF b1 # None THEN
         [sys |-> place_vehicle(sys, b1, body), ret |-> <<body, b1>>]
       ELSE IF b2 # None THEN
         [sys |-> place_vehicle(sys, b2, body), ret |-> <<body, b2>>]
       ELSE [sys |-> sys, ret |-> <<NoBody, None>>]

\* process_o2_temp_buffer: ret is <<body, line>>, or <<NoBody, None>> for None
process_o2_temp_buffer(sys0) ==
  IF Len(sys0.o2_temp_buffer) = 0 \/ sys0.o2Stopped THEN
    [sys |-> sys0, ret |-> <<NoBody, None>>]
  ELSE
    LET body == Head(sys0.o2_temp_buffer)
        sys == [sys0 EXCEPT !.o2_temp_buffer = Tail(@)]
        b1 == f1(sys, O2_BUFFERS, body.color)
        b2 == find_buffer_to_break(sys, O2_BUFFERS, body.color)
    IN IF b1 # None THEN
         [sys |-> place_vehicle(sys, b1, body), ret |-> <<body, b1>>]
       ELSE IF b2 # None THEN
         [sys |-> place_vehicle(sys, b2, body), ret |-> <<body, b2>>]
       ELSE [sys |-> sys0, ret |-> <<NoBody, None>>]

\* ------------------------------------------------------------------
\* ConveyorSystem: main-conveyor selection
\* ------------------------------------------------------------------
\* length of the maximal prefix of q[i..] of colour c
RECURSIVE HeadRun(_, _, _)
HeadRun(q, i, c) ==
  IF i > Len(q) \/ q[i].color # c THEN 0 ELSE 1 + HeadRun(q, i + 1, c)

\* Visible without the test of the output gate
Visible_nogate(sys, l) == ~is_empty(sys.buffer_lines[l])

\* the loop guard of the extractor: a line it looks at
Visible(sys, l) ==
  ~(is_empty(sys.buffer_lines[l]) \/ ~sys.buffer_lines[l].is_available_output)

HeadCount(sys, l) ==
  HeadRun(sys.buffer_lines[l].queue, 1, peek_head(sys.buffer_lines[l]).color)

f1_find_max_connected_color(sys) ==
  LET L == DOMAIN sys.buffer_lines
      V == {l \in L : Visible(sys, l)}
      head_color(l) == peek_head(sys.buffer_lines[l]).color
      seen == {head_color(l) : l \in V}
      color_counts(c) ==
        CHOOSE n \in {HeadCount(sys, l) : l \in {k \in V : head_color(k) = c}} :
          \A l \in V : head_color(l) = c => HeadCount(sys, l) <= n
      \* buffer_meta[c]: the first line (in dict order) reaching the count
      meta_line(c) ==
        CHOOSE l \in V :
          /\ head_color(l) = c
          /\ HeadCount(sys, l) = color_counts(c)
          /\ \A k \in V : (head_color(k) = c /\ HeadCount(sys, k) = color_counts(c))
                             => l <= k
      max_freq == CHOOSE n \in {color_counts(c) : c \in seen} :
                    \A c \in seen : color_counts(c) <= n
      candidates == {c \in seen : color_counts(c) = max_freq}
      \* (remaining_capacity, -connected_count, line_id), compared as tuples
      less(c, d) ==
        LET rc == get_remaining_capacity(sys.buffer_lines[meta_line(c)])
            rd == get_remaining_capacity(sys.buffer_lines[meta_line(d)])
            nc == 0 - HeadCount(sys, meta_line(c))
            nd == 0 - HeadCount(sys, meta_line(d))
        IN \/ rc < rd
           \/ rc = rd /\ nc < nd
           \/ rc = rd /\ nc = nd /\ meta_line(c) < meta_line(d)
  IN IF V = {} THEN None
     ELSE IF Cardinality(candidates) = 1 THEN CHOOSE c \in candidates : TRUE
     ELSE CHOOSE c \in candidates : \A d \in candidates \ {c} : less(c, d)

\* FewestRemaining without the sort: the earliest candidate
FewestRemaining_unsorted(sys, C) ==
  CHOOSE l \in C : \A k \in C : l <= k

\* candidate_lines.sort(key=remaining_capacity) is stable: among equal
\* keys the line earlier in the dict (lower id) comes first
FewestRemaining(sys, C) ==
  CHOOSE l \in C : \A k \in C :
    \/ get_remaining_capacity(sys.buffer_lines[l])
         < get_remaining_capacity(sys.buffer_lines[k])
    \/ /\ get_remaining_capacity(sys.buffer_lines[l])
            = get_remaining_capacity(sys.buffer_lines[k])
       /\ l <= k

f2_choose_buffer_for_color(sys, target_color) ==
  LET C == {l \in DOMAIN sys.buffer_lines :
              Visible(sys, l) /\ peek_head(sys.buffer_lines[l]).color = target_color}
  IN IF C = {} THEN None ELSE FewestRemaining(sys, C)

\* select_buffer_for_main_conveyor without the continuation of the
\* conveyor's colour
select_buffer_for_main_conveyor_nolast(sys) ==
  LET max_color == f1_find_max_connected_color(sys)
  IN IF max_color # None
       THEN f2_choose_buffer_for_color(sys, max_color)
       ELSE None

are_all_o2_buffers_full(sys) ==
  ~\E i \in 1..Len(O2_BUFFERS) :
      /\ sys.buffer_lines[O2_BUFFERS[i]].is_available_input
      /\ ~is_full(sys.buffer_lines[O2_BUFFERS[i]])

\* select_buffer_for_main_conveyor that continues the conveyor's colour
\* whether or not the O2 lines are all full
select_buffer_for_main_conveyor_nopressure(sys) ==
  LET max_color == f1_find_max_connected_color(sys)
      matching_buffers ==
        {l \in DOMAIN sys.buffer_lines :
           /\ Visible(sys, l)
           /\ peek_head(sys.buffer_lines[l]).color = sys.main_conveyor_last_color}
      by_max == IF max_color # None
                  THEN f2_choose_buffer_for_color(sys, max_color)
                  ELSE None
  IN IF sys.main_conveyor_last_color # None /\ matching_buffers # {}
       THEN FewestRemaining(sys, matching_buffers)
     ELSE by_max

select_buffer_for_main_conveyor(sys) ==
  LET max_color == f1_find_max_connected_color(sys)
      matching_buffers ==
        {l \in DOMAIN sys.buffer_lines :
           /\ Visible(sys, l)
           /\ peek_head(sys.buffer_lines[l]).color = sys.main_conveyor_last_color}
      by_max == IF max_color # None
                  THEN f2_choose_buffer_for_color(sys, max_color)
                  ELSE None
  IN IF are_all_o2_buffers_full(sys) THEN by_max
     ELSE IF sys.main_conveyor_last_color # None /\ matching_buffers # {}
       THEN FewestRemaining(sys, matching_buffers)
     ELSE by_max

\* ColorChanged that counts every body as a change
ColorChanged_always(last_color, body) == body.color # None

\* ColorChanged without the test for the first body
ColorChanged_first(last_color, body) == last_color # body.color

\* lines 1611 and 1648: the extracted body changes the conveyor's colour
ColorChanged(last_color, body) ==
  last_color # None /\ last_color # body.color

\* ExtractOptimized that counts a tick without selection as processed
ExtractOptimized_idle_counts(sys) ==
  LET Conveyed(sel, body, color_change) ==
        [sys |-> [sys EXCEPT
                    !.buffer_lines[sel] = remove_body_line(@),
                    !.color_changeovers = IF color_change THEN @ + 1 ELSE @,
                    !.total_penalty_time =
                       IF color_change THEN @ + PENALTY_TIME_COLOR_CHANGE ELSE @,
                    !.main_conveyor_last_color = body.color,
                    !.total_processed = @ + 1,
                    !.main_conveyor_sequence =
                       Append(@, [color |-> body.color, buffer |-> sel,
                                  id |-> body.body_id,
                                  color_change |-> color_change])],
         sel |-> sel, body |-> body]
      Removed(sel, body) ==
        IF body = NoBody THEN [sys |-> sys, sel |-> sel, body |-> NoBody]
        ELSE Conveyed(sel, body, ColorChanged(sys.main_conveyor_last_color, body))
      Selected(sel) ==
        IF sel = None
          THEN [sys |-> [sys EXCEPT !.total_processed = @ + 1],
                sel |-> sel, body |-> NoBody]
        ELSE Removed(sel, remove_body_ret(sys.buffer_lines[sel]))
  IN Selected(select_buffer_for_main_conveyor(sys))

\* run_single_cycle, lines 1605-1632: the extraction of the optimized
\* engine. [sys |-> system afterwards, sel |-> selected line, body |->
\* the body remove_body returned]
ExtractOptimized(sys) ==
  LET Conveyed(sel, body, color_change) ==
        [sys |-> [sys EXCEPT
                    !.buffer_lines[sel] = remove_body_line(@),
                    !.color_changeovers = IF color_change THEN @ + 1 ELSE @,
                    !.total_penalty_time =
                       IF color_change THEN @ + PENALTY_TIME_COLOR_CHANGE ELSE @,
                    !.main_conveyor_last_color = body.color,
                    !.total_processed = @ + 1,
                    !.main_conveyor_sequence =
                       Append(@, [color |-> body.color, buffer |-> sel,
                                  id |-> body.body_id,
                                  color_change |-> color_change])],
         sel |-> sel, body |-> body]
      Removed(sel, body) ==
        IF body = NoBody THEN [sys |-> sys, sel |-> sel, body |-> NoBody]
        ELSE Conveyed(sel, body, ColorChanged(sys.main_conveyor_last_color, body))
      Selected(sel) ==
        IF sel = None THEN [sys |-> sys, sel |-> sel, body |-> NoBody]
        ELSE Removed(sel, remove_body_ret(sys.buffer_lines[sel]))
  IN Selected(select_buffer_for_main_conveyor(sys))

\* ------------------------------------------------------------------
\* SimpleRoundRobinConveyorSystem (baseline engine)
\* ------------------------------------------------------------------
NewRoundRobinSystem(cfg) ==
  [buffer_lines |-> NewBufferLines(cfg),
   main_conveyor_last_color |-> None,
   color_changeovers |-> 0,
   total_processed |-> 0,
   body_counter |-> 0,
   penaltyCount |-> 0,
   o2Stopped |-> FALSE,
   o1_buffer_counter |-> 0,
   o2_buffer_counter |-> 0,
   conveyor_buffer_counter |-> 0,
   total_penalty_time |-> 0,
   jph |-> Ratio(0, 1)]

\* the offset (0..n-1) from start of the first slot of the cyclic scan
\* whose line is in the set S, or n when there is none
ScanFrom(buffer_ids, start, k0, S) ==
  LET n == Len(buffer_ids)
      hit(k) == buffer_ids[((start + k) % n) + 1] \in S
  IN IF \E k \in k0..(n - 1) : hit(k)
       THEN CHOOSE k \in k0..(n - 1) : hit(k) /\ \A j \in k0..(k - 1) : ~hit(j)
       ELSE n

\* simple_round_robin_placement that moves the counter one slot on from
\* where the scan started, whatever line was chosen
simple_round_robin_placement_step(sys, buffer_ids, body) ==
  LET n == Len(buffer_ids)
      start_index == IF buffer_ids = O1_BUFFERS THEN sys.o1_buffer_counter
                                                 ELSE sys.o2_buffer_counter
      notfull == {bid \in DOMAIN sys.buffer_lines : ~is_full(sys.buffer_lines[bid])}
      k == ScanFrom(buffer_ids, start_index, 0, notfull)
      counter == (start_index + k) % n
  IN IF k >= n THEN [sys |-> sys, ret |-> None]
     ELSE [sys |-> IF buffer_ids = O1_BUFFERS
                     THEN [sys EXCEPT !.o1_buffer_counter = (start_index + 1) % n]
                     ELSE [sys EXCEPT !.o2_buffer_counter = (start_index + 1) % n],
           ret |-> buffer_ids[counter + 1]]

\* [sys |-> system afterwards (the counter moved), ret |-> line or None]
simple_round_robin_placement(sys, buffer_ids, body) ==
  LET n == Len(buffer_ids)
      start_index == IF buffer_ids = O1_BUFFERS THEN sys.o1_buffer_counter
                                                 ELSE sys.o2_buffer_counter
      notfull == {bid \in DOMAIN sys.buffer_lines : ~is_full(sys.buffer_lines[bid])}
      k == ScanFrom(buffer_ids, start_index, 0, notfull)
      counter == (start_index + k) % n
  IN IF k >= n THEN [sys |-> sys, ret |-> None]
     ELSE [sys |-> IF buffer_ids = O1_BUFFERS
                     THEN [sys EXCEPT !.o1_buffer_counter = (counter + 1) % n]
                     ELSE [sys EXCEPT !.o2_buffer_counter = (counter + 1) % n],
           ret |-> buffer_ids[counter + 1]]

\* rr_place_for_o1 that counts the crossing but adds no penalty time
rr_place_for_o1_untimed(sys0, body) ==
  LET sys == [sys0 EXCEPT !.o2Stopped = FALSE]
      p1 == simple_round_robin_placement(sys, O1_BUFFERS, body)
      p2 == simple_round_robin_placement(sys, O2_BUFFERS, body)
  IN IF p1.ret # None THEN
       [sys |-> place_vehicle(p1.sys, p1.ret, body), ret |-> <<p1.ret, FALSE, FALSE>>]
     ELSE IF p2.ret # None THEN
       [sys |-> [place_vehicle(p2.sys, p2.ret, body) EXCEPT
                   !.penaltyCount = @ + 1,
                   !.o2Stopped = TRUE],
        ret |-> <<p2.ret, TRUE, TRUE>>]
     ELSE [sys |-> sys, ret |-> <<None, FALSE, FALSE>>]

rr_place_for_o1(sys0, body) ==
  LET sys == [sys0 EXCEPT !.o2Stopped = FALSE]
      p1 == simple_round_robin_placement(sys, O1_BUFFERS, body)
      p2 == simple_round_robin_placement(sys, O2_BUFFERS, body)
  IN IF p1.ret # None THEN
       [sys |-> place_vehicle(p1.sys, p1.ret, body), ret |-> <<p1.ret, FALSE, FALSE>>]
     ELSE IF p2.ret # None THEN
       [sys |-> [place_vehicle(p2.sys, p2.ret, body) EXCEPT
                   !.penaltyCount = @ + 1,
                   !.o2Stopped = TRUE,
                   !.total_penalty_time = @ + PENALTY_TIME_O1_L5_L9],
        ret |-> <<p2.ret, TRUE, TRUE>>]
     ELSE [sys |-> sys, ret |-> <<None, FALSE, FALSE>>]

\* rr_place_for_o2 without the test of o2Stopped
rr_place_for_o2_nostop(sys, body) ==
  LET p == simple_round_robin_placement(sys, O2_BUFFERS, body)
  IN IF p.ret # None THEN
       [sys |-> place_vehicle(p.sys, p.ret, body), ret |-> p.ret]
     ELSE [sys |-> sys, ret |-> None]

rr_place_for_o2(sys, body) ==
  LET p == simple_round_robin_placement(sys, O2_BUFFERS, body)
  IN IF sys.o2Stopped THEN [sys |-> sys, ret |-> None]
     ELSE IF p.ret # None THEN
       [sys |-> place_vehicle(p.sys, p.ret, body), ret |-> p.ret]
     ELSE [sys |-> sys, ret |-> None]

\* simple_round_robin_extraction that leaves the counter where it is
simple_round_robin_extraction_stay(sys) ==
  LET all_buffers == Range(1, Len(sys.buffer_lines))
      n == Len(all_buffers)
      nonempty == {bid \in DOMAIN sys.buffer_lines : ~is_empty(sys.buffer_lines[bid])}
      k == ScanFrom(all_buffers, sys.conveyor_buffer_counter, 0, nonempty)
      counter == (sys.conveyor_buffer_counter + k) % n
  IN IF k >= n THEN [sys |-> sys, ret |-> None]
     ELSE [sys |-> sys, ret |-> all_buffers[counter + 1]]

\* simple_round_robin_extraction that scans from the first line instead
\* of from the counter
simple_round_robin_extraction_from_first(sys) ==
  LET all_buffers == Range(1, Len(sys.buffer_lines))
      n == Len(all_buffers)
      nonempty == {bid \in DOMAIN sys.buffer_lines : ~is_empty(sys.buffer_lines[bid])}
      k == ScanFrom(all_buffers, 0, 0, nonempty)
      counter == k % n
  IN IF k >= n THEN [sys |-> sys, ret |-> None]
     ELSE [sys |-> [sys EXCEPT !.conveyor_buffer_counter = (counter + 1) % n],
           ret |-> all_buffers[counter + 1]]

\* all_buffers = list(self.buffer_lines.keys()) is L1..L9 in order
simple_round_robin_extraction(sys) ==
  LET all_buffers == Range(1, Len(sys.buffer_lines))
      n == Len(all_buffers)
      nonempty == {bid \in DOMAIN sys.buffer_lines : ~is_empty(sys.buffer_lines[bid])}
      k == ScanFrom(all_buffers, sys.conveyor_buffer_counter, 0, nonempty)
      counter == (sys.conveyor_buffer_counter + k) % n
  IN IF k >= n THEN [sys |-> sys, ret |-> None]
     ELSE [sys |-> [sys EXCEPT !.conveyor_buffer_counter = (counter + 1) % n],
           ret |-> all_buffers[counter + 1]]

\* run_single_cycle, lines 1643-1654: the extraction of the baseline
ExtractRoundRobin(sys0) ==
  LET s == simple_round_robin_extraction(sys0)
      sys == s.sys
      sel == s.ret
      body == IF sel # None THEN remove_body_ret(sys.buffer_lines[sel]) ELSE NoBody
      color_change == ColorChanged(sys.main_conveyor_last_color, body)
  IN IF sel = None \/ body = NoBody THEN [sys |-> sys, sel |-> sel, body |-> NoBody]
     ELSE
       [sys |-> [sys EXCEPT
                   !.buffer_lines[sel] = remove_body_line(@),
                   !.color_changeovers = IF color_change THEN @ + 1 ELSE @,
                   !.total_penalty_time =
                      IF color_change THEN @ + PENALTY_TIME_COLOR_CHANGE ELSE @,
                   !.main_conveyor_last_color = body.color,
                   !.total_processed = @ + 1],
        sel |-> sel, body |-> body]

\* ------------------------------------------------------------------
\* History of the calls (observation only: no operation reads it)
\* ------------------------------------------------------------------
\* the lines whose queue grew between two states of an engine
Grown(pre, post) ==
  {l \in DOMAIN pre.buffer_lines :
     Len(post.buffer_lines[l].queue) > Len(pre.buffer_lines[l].queue)}

LastOf(q) == q[Len(q)]

\* enq after a placement call took the engine from pre to post
EnqAfter(enq, pre, post) ==
  [l \in DOMAIN enq |->
     IF l \in Grown(pre, post)
       THEN Append(enq[l], LastOf(post.buffer_lines[l].queue).body_id)
       ELSE enq[l]]

\* ids of the O2-origin bodies that a placement call made resident
NewO2Residents(pre, post) ==
  LET G == {l \in Grown(pre, post) :
              LastOf(post.buffer_lines[l].queue).source_oven = "O2"}
  IN IF G = {} THEN <<>>
     ELSE <<LastOf(post.buffer_lines[CHOOSE l \in G : TRUE].queue).body_id>>

NewHist(cfg) ==
  [enq |-> [l \in DOMAIN cfg |-> <<>>],     \* ids enqueued, per line
   deq |-> [l \in DOMAIN cfg |-> <<>>],     \* ids dequeued, per line
   none_returns |-> 0,                      \* place_for_o1/o2 calls that returned None
   o1_cross_enq |-> 0,                      \* O1 bodies enqueued into an O2 line
   temp_in |-> <<>>,                        \* ids appended to o2_temp_buffer
   temp_out |-> <<>>,                       \* [id, line, resident] of bodies that left it
   o2_resident |-> <<>>,                    \* ids of O2 bodies, in order of residence
   rr_enq |-> [l \in DOMAIN cfg |-> <<>>],  \* the same, baseline engine
   rr_deq |-> [l \in DOMAIN cfg |-> <<>>],
   steps |-> <<>>,                          \* calls of the current tick, in order
   tick_start |-> [o2Stopped |-> FALSE,     \* values when the tick started
                   temp_len |-> 0,
                   o2_resident_len |-> 0]]

NewLoc ==
  [o1_body |-> NoBody, o2_body |-> NoBody,
   rr_o1_body |-> NoBody, rr_o2_body |-> NoBody,
   o1_ret |-> <<None, FALSE, FALSE>>,       \* o1_buffer, penalty_o1, penalty_applied_o1
   temp_processed |-> <<NoBody, None>>,
   drain_called |-> FALSE,
   o2_buffer |-> None,
   selected_buffer_id |-> None,
   rr_o1_ret |-> <<None, FALSE, FALSE>>,
   rr_o2_called |-> FALSE,
   rr_o2_ret |-> None,
   rr_selected_buffer_id |-> None]

\* ------------------------------------------------------------------
\* State machine
\* ------------------------------------------------------------------
Init ==
  /\ BUFFER_CONFIG = BufferConfig(NumO1, CapO1, NumO2, CapO2)
  /\ system = NewConveyorSystem(BUFFER_CONFIG)
  /\ rr = NewRoundRobinSystem(BUFFER_CONFIG)
  /\ pc = "idle"
  /\ loc = NewLoc
  /\ hist = NewHist(BUFFER_CONFIG)
  /\ ticks = 0
  /\ toggles = 0

\* run_single_cycle, lines 1538-1554: colours drawn, bodies created
CreateBodies(o1_color, o2_color) ==
  /\ pc = "idle"
  /\ system' = [system EXCEPT !.body_counter = @ + 2]
  /\ rr' = [rr EXCEPT !.body_counter = @ + 2]
  /\ loc' = [NewLoc EXCEPT
       !.o1_body = VehicleBody(system.body_counter + 1, o1_color, "O1"),
       !.o2_body = VehicleBody(system.body_counter + 2, o2_color, "O2"),
       !.rr_o1_body = VehicleBody(rr.body_counter + 1, o1_color, "O1"),
       !.rr_o2_body = VehicleBody(rr.body_counter + 2, o2_color, "O2")]
  /\ hist' = [hist EXCEPT
       !.steps = <<"create">>,
       !.tick_start = [o2Stopped |-> system.o2Stopped,
                       temp_len |-> Len(system.o2_temp_buffer),
                       o2_resident_len |-> Len(hist.o2_resident)]]
  /\ pc' = "place_o1"
  /\ ticks' = ticks + 1
  /\ UNCHANGED <<BUFFER_CONFIG, toggles>>

\* a tick with any pair of colours (generate_vehicle_color, lines 60-67)
GenerateBodies ==
  /\ ticks < MaxTicks
  /\ \E o1_color \in ALL_COLORS, o2_color \in ALL_COLORS :
       CreateBodies(o1_color, o2_color)

\* line 1557: system.place_for_o1(o1_body)
PlaceO1 ==
  /\ pc = "place_o1"
  /\ \E r \in {place_for_o1(system, loc.o1_body)} :
        /\ system' = r.sys
        /\ loc' = [loc EXCEPT !.o1_ret = r.ret]
        /\ hist' = [hist EXCEPT
             !.steps = Append(@, "place_o1"),
             !.enq = EnqAfter(@, system, r.sys),
             !.none_returns = IF r.ret[1] = None THEN @ + 1 ELSE @,
             !.o1_cross_enq =
                IF \E l \in Grown(system, r.sys) : InSeq(l, O2_BUFFERS)
                  THEN @ + 1 ELSE @]
  /\ pc' = "drain"
  /\ UNCHANGED <<BUFFER_CONFIG, rr, ticks, toggles>>

\* TempDrainDue without the test of o2Stopped
TempDrainDue_nostop(sys) == Len(sys.o2_temp_buffer) > 0

\* line 1563: if not system.o2Stopped and system.o2_temp_buffer
TempDrainDue(sys) == ~sys.o2Stopped /\ Len(sys.o2_temp_buffer) > 0

\* lines 1560-1571: one body of the temporary buffer, when O2 is free
DrainTemp ==
  /\ pc = "drain"
  /\ IF TempDrainDue(system)
       THEN \E r \in {process_o2_temp_buffer(system)} :
            LET left == Len(r.sys.o2_temp_buffer) < Len(system.o2_temp_buffer)
                body == Head(system.o2_temp_buffer)
            IN /\ system' = r.sys
               /\ loc' = [loc EXCEPT !.temp_processed = r.ret,
                                     !.drain_called = TRUE]
               /\ hist' = [hist EXCEPT
                    !.steps = Append(@, "drain"),
                    !.enq = EnqAfter(@, system, r.sys),
                    !.o2_resident = @ \o NewO2Residents(system, r.sys),
                    !.temp_out =
                       IF left
                         THEN Append(@, [id |-> body.body_id,
                                         line |-> r.ret[2],
                                         resident |-> Grown(system, r.sys) # {}])
                         ELSE @]
       ELSE UNCHANGED <<system, loc, hist>>
  /\ pc' = "place_o2"
  /\ UNCHANGED <<BUFFER_CONFIG, rr, ticks, toggles>>

\* line 1574: system.place_for_o2(o2_body)
PlaceO2 ==
  /\ pc = "place_o2"
  /\ \E r \in {place_for_o2(system, loc.o2_body)} :
        /\ system' = r.sys
        /\ loc' = [loc EXCEPT !.o2_buffer = r.ret]
        /\ hist' = [hist EXCEPT
             !.steps = Append(@, "place_o2"),
             !.enq = EnqAfter(@, system, r.sys),
             !.o2_resident = @ \o NewO2Residents(system, r.sys),
             !.none_returns = IF r.ret = None THEN @ + 1 ELSE @,
             !.temp_in =
                IF Len(r.sys.o2_temp_buffer) > Len(system.o2_temp_buffer)
                  THEN Append(@, LastOf(r.sys.o2_temp_buffer).body_id)
                  ELSE @]
  /\ pc' = "rr_place"
  /\ UNCHANGED <<BUFFER_CONFIG, rr, ticks, toggles>>

\* lines 1577-1579: the baseline's placements
RRPlace ==
  /\ pc = "rr_place"
  /\ \E r1 \in {rr_place_for_o1(rr, loc.rr_o1_body)} :
     \E called \in {~r1.sys.o2Stopped} :
     \E r2 \in {IF called THEN rr_place_for_o2(r1.sys, loc.rr_o2_body)
                           ELSE [sys |-> r1.sys, ret |-> None]} :
        /\ rr' = r2.sys
        /\ loc' = [loc EXCEPT !.rr_o1_ret = r1.ret,
                              !.rr_o2_called = called,
                              !.rr_o2_ret = r2.ret]
        /\ hist' = [hist EXCEPT
             !.rr_enq = EnqAfter(EnqAfter(@, rr, r1.sys), r1.sys, r2.sys)]
  /\ pc' = "extract"
  /\ UNCHANGED <<BUFFER_CONFIG, system, ticks, toggles>>

\* lines 1605-1640: one extraction of the optimized engine
Extract ==
  /\ pc = "extract"
  /\ \E r \in {ExtractOptimized(system)} :
        /\ system' = r.sys
        /\ loc' = [loc EXCEPT !.selected_buffer_id = r.sel]
        /\ hist' = [hist EXCEPT
             !.steps = Append(@, "extract"),
             !.deq = IF r.body # NoBody
                       THEN [@ EXCEPT ![r.sel] = Append(@, r.body.body_id)]
                       ELSE @]
  /\ pc' = "rr_extract"
  /\ UNCHANGED <<BUFFER_CONFIG, rr, ticks, toggles>>

\* lines 1643-1657: one extraction of the baseline; run_single_cycle returns
RRExtract ==
  /\ pc = "rr_extract"
  /\ \E r \in {ExtractRoundRobin(rr)} :
        /\ rr' = r.sys
        /\ loc' = [loc EXCEPT !.rr_selected_buffer_id = r.sel]
        /\ hist' = [hist EXCEPT
             !.rr_deq = IF r.body # NoBody
                          THEN [@ EXCEPT ![r.sel] = Append(@, r.body.body_id)]
                          ELSE @]
  /\ pc' = "rerun"
  /\ UNCHANGED <<BUFFER_CONFIG, system, ticks, toggles>>

\* main, lines 998-999: st.rerun() runs the script again from the top,
\* which recomputes the JPH of both engines
Rerun ==
  /\ pc = "rerun"
  /\ system' = update_jph(system)
  /\ rr' = update_jph(rr)
  /\ pc' = "idle"
  /\ UNCHANGED <<BUFFER_CONFIG, loc, hist, ticks, toggles>>

\* main, lines 1138-1148: the operator's checkboxes set the gates of the
\* optimized engine's lines (a script run between two ticks)
ToggleInput ==
  /\ pc = "idle"
  /\ toggles < MaxToggles
  /\ \E l \in Lines :
       system' = [system EXCEPT !.buffer_lines[l].is_available_input = ~@]
  /\ toggles' = toggles + 1
  /\ UNCHANGED <<BUFFER_CONFIG, rr, pc, loc, hist, ticks>>

ToggleOutput ==
  /\ pc = "idle"
  /\ toggles < MaxToggles
  /\ \E l \in Lines :
       system' = [system EXCEPT !.buffer_lines[l].is_available_output = ~@]
  /\ toggles' = toggles + 1
  /\ UNCHANGED <<BUFFER_CONFIG, rr, pc, loc, hist, ticks>>

Next ==
  \/ GenerateBodies
  \/ PlaceO1
  \/ DrainTemp
  \/ PlaceO2
  \/ RRPlace
  \/ Extract
  \/ RRExtract
  \/ Rerun
  \/ ToggleInput
  \/ ToggleOutput

Spec == Init /\ [][Next]_vars

\* ------------------------------------------------------------------
\* The same program on a bank with a deeper O1 line, and an operator who
\* closes the input gates of a whole group between two ticks
\* ------------------------------------------------------------------
\* the state after construction with the bank cfg
InitBank(cfg) ==
  /\ BUFFER_CONFIG = cfg
  /\ system = NewConveyorSystem(cfg)
  /\ rr = NewRoundRobinSystem(cfg)
  /\ pc = "idle"
  /\ loc = NewLoc
  /\ hist = NewHist(cfg)
  /\ ticks = 0
  /\ toggles = 0

InitDeep == InitBank(BufferConfig(NumO1 - 1, CapO1 + 1, NumO2, CapO2))

\* main, lines 1138-1148: the "Input" boxes of every line of one group
\* unchecked (script runs between two ticks)
CloseGroupInput(oven) ==
  /\ pc = "idle"
  /\ toggles < MaxGroupToggles
  /\ \E l \in Lines :
       BUFFER_CONFIG[l].oven = oven /\ system.buffer_lines[l].is_available_input
  /\ system' = [system EXCEPT !.buffer_lines =
       [l \in DOMAIN @ |->
          IF BUFFER_CONFIG[l].oven = oven
            THEN [@[l] EXCEPT !.is_available_input = FALSE]
            ELSE @[l]]]
  /\ toggles' = toggles + 1
  /\ UNCHANGED <<BUFFER_CONFIG, rr, pc, loc, hist, ticks>>

NextDeep ==
  \/ GenerateBodies
  \/ PlaceO1
  \/ DrainTemp
  \/ PlaceO2
  \/ RRPlace
  \/ Extract
  \/ RRExtract
  \/ Rerun
  \/ \E oven \in {"O1", "O2"} : CloseGroupInput(oven)

SpecDeep == InitDeep /\ [][NextDeep]_vars

\* ------------------------------------------------------------------
\* The same bank with an operator who closes the output gates of a whole
\* group between two ticks
\* ------------------------------------------------------------------
\* main, lines 1138-1148: the "Output" boxes of every line of one group
\* unchecked (script runs between two ticks)
CloseGroupOutput(oven) ==
  /\ pc = "idle"
  /\ toggles < MaxGroupToggles
  /\ \E l \in Lines :
       BUFFER_CONFIG[l].oven = oven /\ system.buffer_lines[l].is_available_output
  /\ system' = [system EXCEPT !.buffer_lines =
       [l \in DOMAIN @ |->
          IF BUFFER_CONFIG[l].oven = oven
            THEN [@[l] EXCEPT !.is_available_output = FALSE]
            ELSE @[l]]]
  /\ toggles' = toggles + 1
  /\ UNCHANGED <<BUFFER_CONFIG, rr, pc, loc, hist, ticks>>

NextOut ==
  \/ GenerateBodies
  \/ PlaceO1
  \/ DrainTemp
  \/ PlaceO2
  \/ RRPlace
  \/ Extract
  \/ RRExtract
  \/ Rerun
  \/ \E oven \in {"O1", "O2"} : CloseGroupOutput(oven)

SpecOut == InitDeep /\ [][NextOut]_vars

\* ------------------------------------------------------------------
\* Scenarios on the bank of the source (BUFFER_CONFIG, lines 27-37):
\* L1..L4 of capacity 14 fed by O1, L5..L9 of capacity 16 fed by O2
\* ------------------------------------------------------------------
SourceBank == BufferConfig(4, 14, 5, 16)

AllFull(sys, buffer_ids) ==
  \A i \in 1..Len(buffer_ids) : is_full(sys.buffer_lines[buffer_ids[i]])

\* Scenario S4.  The starting state (L1..L4 full of C3, everything else
\* empty) is produced by the program itself: the operator closes the
\* output gates of L1..L4 and the input gates of L5..L9, runs ticks of
\* (C3, C3) until L1..L4 are full (the O2 bodies find no line and are
\* dropped, nothing is extracted), and opens every gate again.
\* number of ticks of (C3, C4) after the prefill
S4Ticks == 5

InitS4 == InitBank(SourceBank)

\* number of ticks the prefill takes
S4PrefillTicks == Len(O1_BUFFERS) * BUFFER_CONFIG[1].capacity

S4CloseGates ==
  /\ pc = "idle"
  /\ toggles = 0
  /\ system' = [system EXCEPT !.buffer_lines =
       [l \in DOMAIN @ |->
          IF BUFFER_CONFIG[l].oven = "O1"
            THEN [@[l] EXCEPT !.is_available_output = FALSE]
            ELSE [@[l] EXCEPT !.is_available_input = FALSE]]]
  /\ toggles' = 1
  /\ UNCHANGED <<BUFFER_CONFIG, rr, pc, loc, hist, ticks>>

S4Prefill ==
  /\ toggles = 1
  /\ ~AllFull(system, O1_BUFFERS)
  /\ CreateBodies(3, 3)

S4OpenGates ==
  /\ pc = "idle"
  /\ toggles = 1
  /\ AllFull(system, O1_BUFFERS)
  /\ system' = [system EXCEPT !.buffer_lines =
       [l \in DOMAIN @ |->
          [@[l] EXCEPT !.is_available_input = TRUE,
                       !.is_available_output = TRUE]]]
  /\ toggles' = 2
  /\ UNCHANGED <<BUFFER_CONFIG, rr, pc, loc, hist, ticks>>

S4Tick ==
  /\ toggles = 2
  /\ ticks < S4PrefillTicks + S4Ticks
  /\ CreateBodies(3, 4)

NextS4 ==
  \/ S4CloseGates
  \/ S4Prefill
  \/ S4OpenGates
  \/ S4Tick
  \/ PlaceO1
  \/ DrainTemp
  \/ PlaceO2
  \/ RRPlace
  \/ Extract
  \/ RRExtract
  \/ Rerun

SpecS4 == InitS4 /\ [][NextS4]_vars

\* Scenario S1: ticks of (C1, C1) from the constructed systems
\* number of ticks of scenario S1
S1Ticks == 30

S1Tick ==
  /\ ticks < S1Ticks
  /\ CreateBodies(1, 1)

NextS1 ==
  \/ S1Tick
  \/ PlaceO1
  \/ DrainTemp
  \/ PlaceO2
  \/ RRPlace
  \/ Extract
  \/ RRExtract
  \/ Rerun

SpecS1 == InitBank(SourceBank) /\ [][NextS1]_vars

\* Scenario S2: the two colours swap ovens from one tick to the next;
\* the first tick is either (C1, C2) or (C2, C1)
\* number of ticks of scenario S2
S2Ticks == 30

S2Tick ==
  /\ ticks < S2Ticks
  /\ \E o1_color \in (IF ticks = 0 THEN {1, 2} ELSE {3 - loc.o1_body.color}) :
       CreateBodies(o1_color, 3 - o1_color)

NextS2 ==
  \/ S2Tick
  \/ PlaceO1
  \/ DrainTemp
  \/ PlaceO2
  \/ RRPlace
  \/ Extract
  \/ RRExtract
  \/ Rerun

SpecS2 == InitBank(SourceBank) /\ [][NextS2]_vars

\* Scenario S6: ticks of (C1, C2) from the constructed systems
\* number of ticks of scenario S6
S6Ticks == 18

S6Tick ==
  /\ ticks < S6Ticks
  /\ CreateBodies(1, 2)

NextS6 ==
  \/ S6Tick
  \/ PlaceO1
  \/ DrainTemp
  \/ PlaceO2
  \/ RRPlace
  \/ Extract
  \/ RRExtract
  \/ Rerun

SpecS6 == InitBank(SourceBank) /\ [][NextS6]_vars

\* ------------------------------------------------------------------
\* update_jph on its own: the two engines hold counters n1 <= n2 of
\* processed bodies and the same penalty time, and the script run
\* recomputes jph of both
\* ------------------------------------------------------------------
InitJph ==
  /\ BUFFER_CONFIG = BufferConfig(NumO1, CapO1, NumO2, CapO2)
  /\ \E n1 \in 0..MaxJphProcessed, n2 \in 0..MaxJphProcessed,
        penalty \in 0..MaxJphPenalty :
       /\ n1 <= n2
       /\ system = [NewConveyorSystem(BUFFER_CONFIG) EXCEPT
                      !.total_processed = n1, !.total_penalty_time = penalty]
       /\ rr = [NewRoundRobinSystem(BUFFER_CONFIG) EXCEPT
                  !.total_processed = n2, !.total_penalty_time = penalty]
  /\ pc = "rerun"
  /\ loc = NewLoc
  /\ hist = NewHist(BUFFER_CONFIG)
  /\ ticks = 0
  /\ toggles = 0

SpecJph == InitJph /\ [][Rerun]_vars

\* ------------------------------------------------------------------
\* find_buffer_to_break on its own: a bank of one O1 line and BreakLines
\* O2 lines whose contents and input gates are arbitrary, and a
\* place_for_o2 call with a body of any colour
\* ------------------------------------------------------------------
\* the colour sequences of length up to n
ColorSeqs(n) == UNION {[1..k -> ALL_COLORS] : k \in 0..n}

InitBreak ==
  /\ BUFFER_CONFIG = BufferConfig(1, BreakCap, BreakLines, BreakCap)
  /\ \E colors \in [1..(BreakLines + 1) -> ColorSeqs(BreakCap)],
        gates \in [1..(BreakLines + 1) -> BOOLEAN],
        o2_color \in ALL_COLORS :
       /\ system = [NewConveyorSystem(BUFFER_CONFIG) EXCEPT
            !.body_counter = (BreakLines + 1) * BreakCap + 1,
            !.buffer_lines =
               [l \in DOMAIN @ |->
                  [@[l] EXCEPT
                     !.is_available_input = gates[l],
                     !.queue = [i \in 1..Len(colors[l]) |->
                                  VehicleBody((l - 1) * BreakCap + i,
                                              colors[l][i],
                                              BUFFER_CONFIG[l].oven)]]]]
       /\ loc = [NewLoc EXCEPT
            !.o2_body = VehicleBody((BreakLines + 1) * BreakCap + 1,
                                    o2_color, "O2")]
  /\ rr = NewRoundRobinSystem(BUFFER_CONFIG)
  /\ pc = "place_o2"
  /\ hist = NewHist(BUFFER_CONFIG)
  /\ ticks = 1
  /\ toggles = 0

SpecBreak == InitBreak /\ [][PlaceO2]_vars

\* The baseline between two button presses. The manual controls (Place in
\* Buffers, Conveyor Extract, lines 1453-1530 and 1660-1720) place and
\* extract independently of each other, so every fill level of every line
\* and every position of the three counters occurs. Resident bodies have
\* colour 1; the step that follows is the baseline's placement or its
\* extraction.
InitRR ==
  /\ BUFFER_CONFIG = BufferConfig(NumO1, RRCap, RRLines, RRCap)
  /\ system = NewConveyorSystem(BUFFER_CONFIG)
  /\ \E fill \in [1..(NumO1 + RRLines) -> 0..RRCap],
        c1 \in 0..(NumO1 - 1),
        c2 \in 0..(RRLines - 1),
        c \in 0..(NumO1 + RRLines - 1) :
       rr = [NewRoundRobinSystem(BUFFER_CONFIG) EXCEPT
               !.body_counter = (NumO1 + RRLines) * RRCap + 2,
               !.o1_buffer_counter = c1,
               !.o2_buffer_counter = c2,
               !.conveyor_buffer_counter = c,
               !.buffer_lines =
                  [l \in DOMAIN @ |->
                     [@[l] EXCEPT
                        !.queue = [i \in 1..fill[l] |->
                                     VehicleBody((l - 1) * RRCap + i, 1,
                                                 BUFFER_CONFIG[l].oven)]]]]
  /\ pc \in {"rr_place", "rr_extract"}
  /\ loc = [NewLoc EXCEPT
       !.rr_o1_body = VehicleBody((NumO1 + RRLines) * RRCap + 1, 1, "O1"),
       !.rr_o2_body = VehicleBody((NumO1 + RRLines) * RRCap + 2, 2, "O2")]
  /\ hist = NewHist(BUFFER_CONFIG)
  /\ ticks = 1
  /\ toggles = 0

NextRR ==
  \/ RRPlace
  \/ Extract
  \/ RRExtract

SpecRR == InitRR /\ [][NextRR]_vars

\* ------------------------------------------------------------------
\* Properties
\* ------------------------------------------------------------------
RECURSIVE SumLen(_, _)
\* total number of bodies in lines 1..n of an engine
SumLen(sys, n) ==
  IF n = 0 THEN 0 ELSE Len(sys.buffer_lines[n].queue) + SumLen(sys, n - 1)

\* a line the extractor may take from: non-empty with the output gate open
Eligible(sys, l) ==
  Len(sys.buffer_lines[l].queue) > 0 /\ sys.buffer_lines[l].is_available_output

IsPrefix(p, q) == Len(p) <= Len(q) /\ \A i \in 1..Len(p) : p[i] = q[i]

AtTickEnd == pc = "idle" /\ ticks > 0

\* C1: in both engines every line holds between 0 and its configured
\* capacity bodies, in every state of every tick, whatever the colours
\* and the gate toggles.
C1_Capacity ==
  \A l \in Lines :
    /\ Len(system.buffer_lines[l].queue) <= BUFFER_CONFIG[l].capacity
    /\ Len(rr.buffer_lines[l].queue) <= BUFFER_CONFIG[l].capacity

\* a tick has ended with a line of each group at capacity
C1_Witness ==
  /\ AtTickEnd
  /\ \E l \in Lines : /\ BUFFER_CONFIG[l].oven = "O1"
                      /\ Len(system.buffer_lines[l].queue) = BUFFER_CONFIG[l].capacity
  /\ \E l \in Lines : /\ BUFFER_CONFIG[l].oven = "O2"
                      /\ Len(system.buffer_lines[l].queue) = BUFFER_CONFIG[l].capacity

\* C2: conservation in the optimized engine: at the end of every tick
\* body_counter = bodies in the lines + bodies in the temporary buffer +
\* total_processed + placement calls that returned None.
C2_Conservation ==
  AtTickEnd =>
    system.body_counter =
      SumLen(system, NumLines) + Len(system.o2_temp_buffer)
        + system.total_processed + hist.none_returns

\* C3: whenever a body is enqueued into a line, the line's input gate is
\* open at that moment.
C3_InputGate ==
  [][\A l \in Lines :
       hist'.enq[l] # hist.enq[l] => system.buffer_lines[l].is_available_input]_vars

\* place_for_o2 has just chosen a line whose input gate is closed, and
\* add_body refused the body
C3_Witness ==
  /\ pc = "rr_place"
  /\ loc.o2_buffer \in Lines
  /\ ~system.buffer_lines[loc.o2_buffer].is_available_input
  /\ \A l \in Lines : \A i \in 1..Len(system.buffer_lines[l].queue) :
       system.buffer_lines[l].queue[i].body_id # loc.o2_body.body_id

\* C4: the optimized extractor returns only eligible lines, returns None
\* exactly when no line is eligible, and the dequeue after a selection
\* yields a body.
C4_ExtractorEligible ==
  LET sel == select_buffer_for_main_conveyor(system)
  IN /\ sel # None => sel \in Lines /\ Eligible(system, sel)
     /\ sel = None <=> ~\E l \in Lines : Eligible(system, l)
     /\ sel # None => remove_body_ret(system.buffer_lines[sel]) # NoBody

\* the extractor has just taken a body while a non-empty line with its
\* output gate closed was passed over
C4_Witness ==
  /\ pc = "rr_extract"
  /\ loc.selected_buffer_id # None
  /\ \E l \in Lines : /\ Len(system.buffer_lines[l].queue) > 0
                      /\ ~system.buffer_lines[l].is_available_output

\* C5: every line is FIFO: the bodies dequeued from a line are, in order,
\* the first bodies enqueued into it, and the queue holds the rest in
\* order (both engines).
C5_Fifo ==
  \A l \in Lines :
    /\ hist.enq[l] = hist.deq[l]
         \o [i \in 1..Len(system.buffer_lines[l].queue) |->
               system.buffer_lines[l].queue[i].body_id]
    /\ hist.rr_enq[l] = hist.rr_deq[l]
         \o [i \in 1..Len(rr.buffer_lines[l].queue) |->
               rr.buffer_lines[l].queue[i].body_id]

\* a line has given out two bodies, the second of which waited behind
\* the first, and holds another
C5_Witness ==
  \E l \in Lines :
    /\ Len(hist.deq[l]) >= 2
    /\ Len(system.buffer_lines[l].queue) >= 1
    /\ BUFFER_CONFIG[l].capacity >= 2

\* number of adjacent pairs of different colour in a conveyor log
AdjacentUnequal(log) ==
  Cardinality({i \in 1..(Len(log) - 1) : log[i].color # log[i + 1].color})

\* C6: color_changeovers = number of adjacent pairs of different colour
\* in main_conveyor_sequence = number of entries flagged color_change,
\* and the first entry is never flagged.
C6_Changeovers ==
  LET log == system.main_conveyor_sequence
  IN /\ system.color_changeovers = AdjacentUnequal(log)
     /\ system.color_changeovers =
          Cardinality({i \in 1..Len(log) : log[i].color_change})
     /\ Len(log) >= 1 => ~log[1].color_change

\* the log has a changeover and a pair without one
C6_Witness ==
  LET log == system.main_conveyor_sequence
  IN /\ AtTickEnd
     /\ system.color_changeovers >= 1
     /\ \E i \in 1..(Len(log) - 1) : log[i].color = log[i + 1].color

\* C7: penaltyCount of the optimized engine = number of O1 bodies that
\* place_for_o1 enqueued into a line of the O2 group.
C7_PenaltyCount == system.penaltyCount = hist.o1_cross_enq

\* C8: o2Stopped is false initially, and at the end of every tick it is
\* true exactly when the tick's place_for_o1 returned a line of the O2
\* group (both engines).
C8_O2Stopped ==
  /\ ticks = 0 => ~system.o2Stopped /\ ~rr.o2Stopped
  /\ AtTickEnd =>
       /\ system.o2Stopped <=> InSeq(loc.o1_ret[1], O2_BUFFERS)
       /\ rr.o2Stopped <=> InSeq(loc.rr_o1_ret[1], O2_BUFFERS)

\* a tick that blocked O2 has been followed by one whose place_for_o1
\* stayed in the O1 group
C8_Witness ==
  /\ AtTickEnd
  /\ system.penaltyCount >= 1
  /\ InSeq(loc.o1_ret[1], O1_BUFFERS)
  /\ ~system.o2Stopped

\* C9: the bodies that left the temporary buffer are, in order, the first
\* bodies that entered it, and each became resident in a line of the O2
\* group.
C9_TempDrain ==
  /\ Len(hist.temp_out) <= Len(hist.temp_in)
  /\ \A i \in 1..Len(hist.temp_out) :
       /\ hist.temp_out[i].id = hist.temp_in[i]
       /\ hist.temp_out[i].resident
       /\ InSeq(hist.temp_out[i].line, O2_BUFFERS)

\* ids strictly increasing along a sequence
Increasing(q) == \A i \in 1..(Len(q) - 1) : q[i] < q[i + 1]

\* C10: when place_for_o2 runs with a non-empty temporary buffer the new
\* body is appended to it and no line changes; and O2 bodies become
\* resident in lines in increasing id order.
C10_O2Order ==
  /\ [][(pc = "place_o2" /\ Len(system.o2_temp_buffer) > 0) =>
          /\ system'.o2_temp_buffer = Append(system.o2_temp_buffer, loc.o2_body)
          /\ system'.buffer_lines = system.buffer_lines
          /\ loc'.o2_buffer = TMP_BUFFER]_vars
  /\ [](Increasing(hist.o2_resident))

\* place_for_o2 has just appended a body behind a waiting one although
\* O2 is not blocked, and O2 bodies had become resident before
C10_Witness ==
  /\ pc = "rr_place"
  /\ loc.o2_buffer = TMP_BUFFER
  /\ ~system.o2Stopped
  /\ Len(system.o2_temp_buffer) >= 2
  /\ Len(hist.o2_resident) >= 1

\* C11: f1 (fit_into_group) never returns a line whose input gate is
\* closed: for either group and any colour, in every state the engine can
\* be in, the line f1 returns (by any of its three rules) has
\* is_available_input.
C11_FitHonorsInput ==
  \A color \in ALL_COLORS : \A buffer_ids \in {O1_BUFFERS, O2_BUFFERS} :
    f1(system, buffer_ids, color) # None
      => system.buffer_lines[f1(system, buffer_ids, color)].is_available_input

\* C12: an O1-origin body crosses into the O2 group (penalty, o2Stopped)
\* only when no O1-group line can accept it: right after a place_for_o1
\* of either engine that returned crossed = TRUE, every O1-group line of
\* that engine is full or has its input gate closed.  (The crossing call
\* itself changes no O1-group line.)
C12_CrossOnlyWhenO1Unable ==
  /\ (pc = "drain" /\ loc.o1_ret[2]) =>
       \A i \in 1..Len(O1_BUFFERS) :
          \/ is_full(system.buffer_lines[O1_BUFFERS[i]])
          \/ ~system.buffer_lines[O1_BUFFERS[i]].is_available_input
  /\ (pc = "extract" /\ loc.rr_o1_ret[2]) =>
       \A i \in 1..Len(O1_BUFFERS) :
          \/ is_full(rr.buffer_lines[O1_BUFFERS[i]])
          \/ ~rr.buffer_lines[O1_BUFFERS[i]].is_available_input

\* the calls one tick makes on the optimized engine, as C13 states them
\* (drain before place_for_o1) and as run_single_cycle makes them
StatedOrder(drained) ==
  IF drained THEN <<"create", "drain", "place_o1", "place_o2", "extract">>
             ELSE <<"create", "place_o1", "place_o2", "extract">>

CycleOrder(drained) ==
  IF drained THEN <<"create", "place_o1", "drain", "place_o2", "extract">>
             ELSE <<"create", "place_o1", "place_o2", "extract">>

\* C13 as stated: the tick creates the bodies, drains one entry of the
\* temporary buffer, then runs place_for_o1, place_for_o2 and one
\* extraction; the drain runs exactly when o2Stopped as the previous tick
\* left it is false and the buffer is non-empty.
C13_DrainBeforePlaceO1 ==
  AtTickEnd =>
    /\ hist.steps = StatedOrder(loc.drain_called)
    /\ loc.drain_called <=>
         (~hist.tick_start.o2Stopped /\ hist.tick_start.temp_len > 0)

\* C13 amended: the order is create, place_for_o1, drain, place_for_o2,
\* extraction (at every point of a tick the calls made so far are a
\* prefix of it), and the drain runs exactly when o2Stopped as THIS
\* tick's place_for_o1 left it is false and the buffer is non-empty.
C13_TickOrder ==
  /\ \/ IsPrefix(hist.steps, CycleOrder(TRUE))
     \/ IsPrefix(hist.steps, CycleOrder(FALSE))
  /\ AtTickEnd =>
       /\ hist.steps = CycleOrder(loc.drain_called)
       /\ loc.drain_called <=>
            (~system.o2Stopped /\ hist.tick_start.temp_len > 0)

\* a tick that started with O2 blocked and a waiting body has drained it,
\* its place_for_o1 having stayed in the O1 group
C13_Witness ==
  /\ AtTickEnd
  /\ hist.tick_start.o2Stopped
  /\ hist.tick_start.temp_len > 0
  /\ loc.drain_called
  /\ hist.steps = CycleOrder(TRUE)

S4Start ==
  /\ \A l \in Lines :
       /\ system.buffer_lines[l].is_available_input
       /\ system.buffer_lines[l].is_available_output
       /\ IF BUFFER_CONFIG[l].oven = "O1"
            THEN /\ is_full(system.buffer_lines[l])
                 /\ is_fully_of_color(system, l, 3)
            ELSE is_empty(system.buffer_lines[l])
  /\ Len(system.o2_temp_buffer) = 0
  /\ system.penaltyCount = 0
  /\ ~system.o2Stopped
  /\ system.total_processed = 0

\* the end of the k-th tick of (C3, C4) of scenario S4
S4After(k) == toggles = 2 /\ pc = "idle" /\ ticks = S4PrefillTicks + k

\* C15 (as stated): in scenario S4, after the S4Ticks ticks of (C3, C4)
\* every O1 arrival has crossed into the O2 group and every C4 body waits
\* in the temporary buffer: its length and penaltyCount both equal the
\* number of ticks.
C15_EveryArrivalCrosses ==
  S4After(S4Ticks) =>
    /\ Len(system.o2_temp_buffer) = S4Ticks
    /\ system.penaltyCount = S4Ticks

\* C15 (amended): scenario S4 starts from the stated bank; only the first
\* O1 arrival crosses into the O2 group (o2Stopped is true at the end of
\* the first tick and false at the end of every later one), only the
\* first C4 body is appended to the temporary buffer, the second tick
\* drains it into a line of the O2 group, and from then on the temporary
\* buffer is empty and penaltyCount = 1.
C15_OnlyFirstArrivalCrosses ==
  /\ S4After(0) => S4Start
  /\ \A k \in 1..S4Ticks : S4After(k) =>
       /\ system.penaltyCount = 1
       /\ hist.o1_cross_enq = 1
       /\ Len(hist.temp_in) = 1
       /\ system.o2Stopped <=> (k = 1)
       /\ Len(system.o2_temp_buffer) = (IF k = 1 THEN 1 ELSE 0)
       /\ k >= 2 => /\ Len(hist.temp_out) = 1
                    /\ InSeq(hist.temp_out[1].line, O2_BUFFERS)
       /\ system.total_processed = k

C15_Witness ==
  /\ S4After(S4Ticks)
  /\ system.penaltyCount = 1
  /\ Len(system.o2_temp_buffer) = 0
  /\ Len(hist.temp_out) = 1

\* no line of the group can take a body: each is full or input-closed
GroupUnable(sys, buffer_ids) ==
  \A i \in 1..Len(buffer_ids) :
     \/ is_full(sys.buffer_lines[buffer_ids[i]])
     \/ ~sys.buffer_lines[buffer_ids[i]].is_available_input

\* the tick's drain was invoked and put the head entry back
DrainFailed == loc.drain_called /\ loc.temp_processed[2] = None

C16_FailedDrainReached == AtTickEnd /\ ~system.o2Stopped /\ DrainFailed

\* every line of the O2 group has its input gate closed
O2InputClosed ==
  \A i \in 1..Len(O2_BUFFERS) :
     ~system.buffer_lines[O2_BUFFERS[i]].is_available_input

\* C17: while every line of the O2 group is input-closed, no call of
\* place_for_o1 increments penaltyCount or adds to total_penalty_time,
\* whatever the colours and the contents of the lines.
C17_NoPenaltyWhileO2Closed ==
  [][(pc = "place_o1" /\ O2InputClosed) =>
        /\ system'.penaltyCount = system.penaltyCount
        /\ system'.total_penalty_time = system.total_penalty_time]_vars

\* C18: in scenario S1, after the S1Ticks ticks of (C1, C1) (and after
\* every tick before), the optimized engine has color_changeovers = 0 and
\* penaltyCount = 0, every extracted body has colour C1, one body was
\* extracted per tick, and jph = 3600.
C18_PureStream ==
  (AtTickEnd /\ ticks <= S1Ticks) =>
    /\ system.color_changeovers = 0
    /\ system.penaltyCount = 0
    /\ system.total_processed = ticks
    /\ Len(system.main_conveyor_sequence) = ticks
    /\ \A i \in 1..Len(system.main_conveyor_sequence) :
         system.main_conveyor_sequence[i].color = 1
    /\ system.jph.den > 0
    /\ system.jph.num = 3600 * system.jph.den

C18_Witness ==
  /\ AtTickEnd
  /\ ticks = S1Ticks
  /\ system.total_processed = S1Ticks
  /\ system.jph.num = 3600 * system.jph.den

\* C19: in scenario S2, after the S2Ticks ticks of the alternating stream
\* (either colour first), the runs of equal colour on the main conveyor
\* have an average length of at least 2, total_processed >=
\* 2 * (color_changeovers + 1), and color_changeovers < total_processed.
C19_AlternatingStream ==
  (AtTickEnd /\ ticks = S2Ticks) =>
    /\ system.total_processed = S2Ticks
    /\ system.total_processed >= 2 * (system.color_changeovers + 1)
    /\ system.color_changeovers < system.total_processed

C19_Witness ==
  /\ AtTickEnd
  /\ ticks = S2Ticks
  /\ system.total_processed = S2Ticks
  /\ \E i \in 1..Len(O1_BUFFERS), j \in 1..Len(O2_BUFFERS) :
       /\ ends_with_color(system, O1_BUFFERS[i], 3 - system.main_conveyor_last_color)
       /\ ends_with_color(system, O2_BUFFERS[j], 3 - system.main_conveyor_last_color)
  /\ system.total_processed >= 2 * (system.color_changeovers + 1)

\* the k-th (from 1) element of the cyclic order over the sequence s
Cyclic(s, k) == s[((k - 1) % Len(s)) + 1]

\* in scenario S6 the baseline places the O1 body of tick t in the t-th
\* line of the cyclic order over L1..L4, the O2 body in the t-th line of
\* the cyclic order over L5..L9, and extracts from the t-th line of the
\* cyclic order over all lines
S6CyclicDistribution ==
  /\ loc.rr_o1_ret = <<Cyclic(O1_BUFFERS, ticks), FALSE, FALSE>>
  /\ loc.rr_o2_called
  /\ loc.rr_o2_ret = Cyclic(O2_BUFFERS, ticks)
  /\ loc.rr_selected_buffer_id = Cyclic(Range(1, NumLines), ticks)
  /\ rr.total_processed = ticks

\* C20 (as stated): in scenario S6 the baseline distributes and extracts
\* cyclically and nearly every consecutive pair of extracted bodies
\* differs in colour (read generously: at least half of the
\* total_processed - 1 pairs), which is more than the optimized engine's
\* color_changeovers.
C20_NearWorstCase ==
  (AtTickEnd /\ ticks = S6Ticks) =>
    /\ S6CyclicDistribution
    /\ 2 * rr.color_changeovers >= rr.total_processed - 1
    /\ rr.color_changeovers > system.color_changeovers

\* C20 (amended): in scenario S6 the baseline distributes and extracts
\* cyclically in every tick; the extracted colour therefore changes only
\* where the extraction passes from L4 to L5 or from L9 back to L1, so
\* color_changeovers is the number of such passages (3 after 18 ticks),
\* which is more than the optimized engine's at the end of the scenario.
C20_ChangeoverPerGroupPassage ==
  (AtTickEnd /\ ticks <= S6Ticks) =>
    /\ S6CyclicDistribution
    /\ rr.color_changeovers =
         Cardinality({t \in 2..ticks :
                        (t - 1) % NumLines \in {0, Len(O1_BUFFERS)}})
    /\ ticks = S6Ticks => rr.color_changeovers > system.color_changeovers

C20_Witness ==
  /\ AtTickEnd
  /\ ticks = S6Ticks
  /\ rr.total_processed = S6Ticks
  /\ rr.color_changeovers > system.color_changeovers
  /\ 2 * rr.color_changeovers < rr.total_processed - 1

\* jph of the engine agrees with its counters:
\* jph * (total_processed * 1 + total_penalty_time) = 3600 * total_processed
\* (in exact arithmetic), and jph = 0 when that time is 0
JphConsistent(sys) ==
  LET total_effective_time ==
        sys.total_processed * PROCESSING_TIME_PER_VEHICLE + sys.total_penalty_time
  IN /\ sys.jph.den > 0
     /\ IF total_effective_time > 0
          THEN sys.jph.num * total_effective_time
                 = 3600 * sys.total_processed * sys.jph.den
          ELSE sys.jph.num = 0

\* C21: at every tick boundary (the script is idle, the page is drawn) the
\* jph of each engine is the one computed from the counters as the tick
\* left them, never from those of the tick before.
C21_JphAtTickBoundary ==
  pc = "idle" => JphConsistent(system) /\ JphConsistent(rr)

\* a tick boundary at which penalties have lowered the rate
C21_Witness ==
  /\ AtTickEnd
  /\ system.total_processed > 1
  /\ system.total_penalty_time > 0
  /\ system.jph.num < 3600 * system.jph.den
  /\ system.jph.num > 0

\* the quotient a is at most the quotient b (denominators positive)
RatioLeq(a, b) == a.num * b.den <= b.num * a.den

\* C22: for one penalty time and counters n1 <= n2, update_jph gives
\* jph(n1) <= jph(n2); jph is exactly 3600 when the penalty time is 0 and
\* the counter at least 1; jph never exceeds 3600 (both classes).
C22_JphMonotone ==
  (/\ pc = "idle"
   /\ ticks = 0
   /\ system.total_penalty_time = rr.total_penalty_time
   /\ system.total_processed <= rr.total_processed) =>
    /\ RatioLeq(system.jph, rr.jph)
    /\ \A sys \in {system, rr} :
         /\ sys.jph.den > 0
         /\ RatioLeq(sys.jph, Ratio(3600, 1))
         /\ (sys.total_penalty_time = 0 /\ sys.total_processed >= 1)
              => sys.jph.num = 3600 * sys.jph.den

\* a strict increase at a positive penalty time
C22_Witness ==
  /\ pc = "idle"
  /\ ticks = 0
  /\ system.total_penalty_time = rr.total_penalty_time
  /\ system.total_penalty_time > 0
  /\ 0 < system.total_processed
  /\ system.total_processed < rr.total_processed
  /\ ~RatioLeq(rr.jph, system.jph)

\* C23: when the selection returns no line, the extraction step of the
\* tick changes nothing in the engine: total_processed, color_changeovers,
\* the conveyor's last colour, main_conveyor_sequence, the penalty time
\* and every line's queue stay as they were.
C23_NoSelectionNoEffect ==
  [][(pc = "extract" /\ loc'.selected_buffer_id = None) => system' = system]_vars

\* the optimized engine selected no line although a line holds bodies
\* (behind a closed output gate)
C23_Witness ==
  /\ pc = "rr_extract"
  /\ loc.selected_buffer_id = None
  /\ \E l \in Lines : ~is_empty(system.buffer_lines[l])
  /\ system.total_processed > 0

\* number of positions of the sequence q whose body has the id
IdCount(q, id) == Cardinality({i \in 1..Len(q) : q[i].body_id = id})

RECURSIVE LineIdCount(_, _, _)
\* number of places in lines 1..n of an engine that hold the id
LineIdCount(sys, id, n) ==
  IF n = 0 THEN 0
  ELSE IdCount(sys.buffer_lines[n].queue, id) + LineIdCount(sys, id, n - 1)

\* number of places (lines, temporary buffer, conveyor log) of the
\* optimized engine that hold the id
Owners(id) ==
  LineIdCount(system, id, NumLines)
    + IdCount(system.o2_temp_buffer, id)
    + Cardinality({i \in 1..Len(system.main_conveyor_sequence) :
                     system.main_conveyor_sequence[i].id = id})

\* C24: no body id is held in more than one place over the lines, the
\* temporary buffer and the conveyor log of the optimized engine (nor
\* twice in the lines of the baseline); ids are fresh: body_counter grows
\* by two per tick, the tick's bodies get its two new values, and no id
\* beyond body_counter is held anywhere.
C24_ExclusiveOwnership ==
  /\ system.body_counter = 2 * ticks
  /\ rr.body_counter = 2 * ticks
  /\ ticks > 0 =>
       /\ loc.o1_body.body_id = 2 * ticks - 1
       /\ loc.o2_body.body_id = 2 * ticks
       /\ loc.rr_o1_body.body_id = 2 * ticks - 1
       /\ loc.rr_o2_body.body_id = 2 * ticks
  /\ \A id \in 1..(2 * ticks) :
       /\ Owners(id) <= 1
       /\ LineIdCount(rr, id, NumLines) <= 1
  /\ \A l \in Lines :
       /\ \A i \in 1..Len(system.buffer_lines[l].queue) :
            system.buffer_lines[l].queue[i].body_id \in 1..(2 * ticks)
       /\ \A i \in 1..Len(rr.buffer_lines[l].queue) :
            rr.buffer_lines[l].queue[i].body_id \in 1..(2 * ticks)
  /\ \A i \in 1..Len(system.o2_temp_buffer) :
       system.o2_temp_buffer[i].body_id \in 1..(2 * ticks)
  /\ \A i \in 1..Len(system.main_conveyor_sequence) :
       system.main_conveyor_sequence[i].id \in 1..(2 * ticks)

\* a tick boundary with bodies in a line, in the temporary buffer and on
\* the conveyor log at once
C24_Witness ==
  /\ AtTickEnd
  /\ Len(system.o2_temp_buffer) > 0
  /\ Len(system.main_conveyor_sequence) > 1
  /\ \E l \in Lines : Len(system.buffer_lines[l].queue) > 1

\* C25: a tick extracts at most one body per engine (only the extraction
\* step moves total_processed, by one at most), and exactly one whenever
\* some line is non-empty with its output gate open after the placements;
\* while no gate has been toggled, total_processed of the optimized
\* engine is the number of ticks executed.
C25_OneExtractionPerTick ==
  /\ []((pc = "idle" /\ toggles = 0) => system.total_processed = ticks)
  /\ [][/\ pc # "extract" => system'.total_processed = system.total_processed
        /\ pc = "extract" =>
             /\ system'.total_processed = system.total_processed
                  + (IF \E l \in Lines : Eligible(system, l) THEN 1 ELSE 0)
             /\ SumLen(system', NumLines) = SumLen(system, NumLines)
                  - (IF \E l \in Lines : Eligible(system, l) THEN 1 ELSE 0)
        /\ pc # "rr_extract" => rr'.total_processed = rr.total_processed
        /\ pc = "rr_extract" =>
             /\ rr'.total_processed = rr.total_processed
                  + (IF SumLen(rr, NumLines) > 0 THEN 1 ELSE 0)
             /\ SumLen(rr', NumLines) = SumLen(rr, NumLines)
                  - (IF SumLen(rr, NumLines) > 0 THEN 1 ELSE 0)]_vars

\* every tick extracted a body although a line with bodies has had its
\* output gate closed
C25_Witness ==
  /\ AtTickEnd
  /\ ticks > 2
  /\ system.total_processed = ticks
  /\ \E l \in Lines : /\ ~system.buffer_lines[l].is_available_output
                       /\ Len(system.buffer_lines[l].queue) > 0

\* the first of the four searches of place_for_o1 that yields a line, in
\* the order fit O1, fit O2, force O1, force O2 (None when none does)
FirstOfFour(color) ==
  LET Try4(z) == z
      Try3(z) == IF z # None THEN z
                 ELSE Try4(find_buffer_to_break(system, O2_BUFFERS, color))
      Try2(z) == IF z # None THEN z
                 ELSE Try3(find_buffer_to_break(system, O1_BUFFERS, color))
      Try1(z) == IF z # None THEN z ELSE Try2(f1(system, O2_BUFFERS, color))
  IN Try1(f1(system, O1_BUFFERS, color))

C27_PlaceO2Queues ==
  [][(pc = "place_o2" /\ (system.o2Stopped \/ Len(system.o2_temp_buffer) > 0)) =>
       /\ loc'.o2_buffer = TMP_BUFFER
       /\ system' = [system EXCEPT !.o2_temp_buffer = Append(@, loc.o2_body)]]_vars

\* the new O2 body has just queued behind an earlier arrival although O2
\* is free and a line of the O2 group has room
C27_Witness ==
  /\ pc = "rr_place"
  /\ loc.o2_buffer = TMP_BUFFER
  /\ ~system.o2Stopped
  /\ Len(system.o2_temp_buffer) >= 2
  /\ LastOf(system.o2_temp_buffer) = loc.o2_body
  /\ ~GroupUnable(system, O2_BUFFERS)

\* C28: when the drain is invoked and neither f1 nor find_buffer_to_break
\* finds a line of the O2 group for the head of the temporary buffer,
\* process_o2_temp_buffer returns None and leaves the temporary buffer
\* (same bodies, same order) and every line as they were.
C28_FailedDrainRestores ==
  [][(/\ pc = "drain"
      /\ TempDrainDue(system)
      /\ f1(system, O2_BUFFERS, Head(system.o2_temp_buffer).color) = None
      /\ find_buffer_to_break(system, O2_BUFFERS,
                              Head(system.o2_temp_buffer).color) = None) =>
       /\ loc'.drain_called
       /\ loc'.temp_processed = <<NoBody, None>>
       /\ system' = system]_vars

\* a drain has just failed with two bodies waiting
C28_Witness ==
  /\ pc = "place_o2"
  /\ DrainFailed
  /\ Len(system.o2_temp_buffer) >= 2
  /\ system.o2_temp_buffer[1].body_id < system.o2_temp_buffer[2].body_id

\* C29: when every line of both groups is full or input-closed,
\* place_for_o1 of the optimized engine returns (None, False, False) and
\* drops the body: the lines, the temporary buffer, penaltyCount and
\* total_penalty_time are unchanged and o2Stopped is false.
C29_PlaceO1Overflow ==
  [][(/\ pc = "place_o1"
      /\ GroupUnable(system, O1_BUFFERS)
      /\ GroupUnable(system, O2_BUFFERS)) =>
       /\ loc'.o1_ret = <<None, FALSE, FALSE>>
       /\ system' = [system EXCEPT !.o2Stopped = FALSE]]_vars

\* the line may take a body by force: input gate open and not full
BreakCandidate(sys, l) ==
  sys.buffer_lines[l].is_available_input /\ ~is_full(sys.buffer_lines[l])

\* line a comes before line b of the group in the order of
\* find_buffer_to_break: smaller rear run, then more room, then earlier
\* position
BreaksBefore(sys, buffer_ids, a, b) ==
  \/ get_rear_color_group_size(sys, a) < get_rear_color_group_size(sys, b)
  \/ /\ get_rear_color_group_size(sys, a) = get_rear_color_group_size(sys, b)
     /\ get_remaining_capacity(sys.buffer_lines[a])
          > get_remaining_capacity(sys.buffer_lines[b])
  \/ /\ get_rear_color_group_size(sys, a) = get_rear_color_group_size(sys, b)
     /\ get_remaining_capacity(sys.buffer_lines[a])
          = get_remaining_capacity(sys.buffer_lines[b])
     /\ \E i, j \in 1..Len(buffer_ids) :
          i < j /\ buffer_ids[i] = a /\ buffer_ids[j] = b

\* C30: find_buffer_to_break returns None exactly when every line of the
\* group is input-closed or full; otherwise it returns the line that is
\* input-open and not full and comes before every other such line:
\* smallest rear run, then largest remaining capacity, then earliest
\* position in the group.
C30_ForceChoice ==
  \A color \in ALL_COLORS : \A buffer_ids \in {O1_BUFFERS, O2_BUFFERS} :
    /\ find_buffer_to_break(system, buffer_ids, color) = None
         <=> GroupUnable(system, buffer_ids)
    /\ find_buffer_to_break(system, buffer_ids, color) # None =>
         /\ InSeq(find_buffer_to_break(system, buffer_ids, color), buffer_ids)
         /\ BreakCandidate(system, find_buffer_to_break(system, buffer_ids, color))
         /\ \A i \in 1..Len(buffer_ids) :
              (/\ BreakCandidate(system, buffer_ids[i])
               /\ buffer_ids[i] # find_buffer_to_break(system, buffer_ids, color))
                => BreaksBefore(system, buffer_ids,
                                find_buffer_to_break(system, buffer_ids, color),
                                buffer_ids[i])

\* place_for_o2 has just put its body, by force, into a later line of
\* the O2 group: an earlier line that is input-open and not full has the
\* same rear run and less room
C30_Witness ==
  /\ pc = "rr_place"
  /\ InSeq(loc.o2_buffer, O2_BUFFERS)
  /\ Len(system.buffer_lines[loc.o2_buffer].queue) >= 2
  /\ LastOf(system.buffer_lines[loc.o2_buffer].queue) = loc.o2_body
  /\ \E e \in Lines :
       /\ InSeq(e, O2_BUFFERS)
       /\ e < loc.o2_buffer
       /\ BreakCandidate(system, e)
       /\ get_rear_color(system, e) # loc.o2_body.color
       /\ get_rear_color_group_size(system, e)
            = RearRun(system.buffer_lines[loc.o2_buffer].queue,
                      Len(system.buffer_lines[loc.o2_buffer].queue) - 1,
                      system.buffer_lines[loc.o2_buffer].queue[
                        Len(system.buffer_lines[loc.o2_buffer].queue) - 1].color)
       /\ get_remaining_capacity(system.buffer_lines[e])
            <= get_remaining_capacity(system.buffer_lines[loc.o2_buffer])

\* the earliest line of the group that is in the set S, None if none is
Earliest(buffer_ids, S) ==
  IF \E i \in 1..Len(buffer_ids) : buffer_ids[i] \in S
    THEN buffer_ids[CHOOSE i \in 1..Len(buffer_ids) :
                      /\ buffer_ids[i] \in S
                      /\ \A j \in 1..(i - 1) : buffer_ids[j] \notin S]
    ELSE None

\* the line the three rules give by priority over the whole group; with
\* gated, the first and the third rule skip input-closed lines
FitByPriority(buffer_ids, color, gated) ==
  LET open(l) == ~gated \/ system.buffer_lines[l].is_available_input
      pure == {l \in Lines : /\ open(l)
                             /\ ~is_full(system.buffer_lines[l])
                             /\ is_fully_of_color(system, l, color)}
      tail == {l \in Lines : /\ ~is_full(system.buffer_lines[l])
                             /\ ends_with_color(system, l, color)}
      empty == {l \in Lines : open(l) /\ is_empty(system.buffer_lines[l])}
  IN IF Earliest(buffer_ids, pure) # None THEN Earliest(buffer_ids, pure)
     ELSE IF Earliest(buffer_ids, tail) # None THEN Earliest(buffer_ids, tail)
     ELSE Earliest(buffer_ids, empty)

\* C31 (as stated): f1 returns the first non-full line entirely of the
\* colour if there is one, otherwise the first non-full line whose tail
\* has the colour, otherwise the first empty line, otherwise None.
C31_FitPriorityAnyGate ==
  \A color \in ALL_COLORS : \A buffer_ids \in {O1_BUFFERS, O2_BUFFERS} :
    f1(system, buffer_ids, color) = FitByPriority(buffer_ids, color, FALSE)

\* C31 (amended): the same priority over the whole group, the first and
\* the third rule looking at input-open lines only (the second at every
\* line, whatever its input gate).
C31_FitPriority ==
  \A color \in ALL_COLORS : \A buffer_ids \in {O1_BUFFERS, O2_BUFFERS} :
    f1(system, buffer_ids, color) = FitByPriority(buffer_ids, color, TRUE)

\* place_for_o2 has just put its body into a later line of the O2 group
\* that was entirely of its colour, passing an earlier line with room
\* whose tail has the colour behind another colour
C31_Witness ==
  /\ pc = "rr_place"
  /\ InSeq(loc.o2_buffer, O2_BUFFERS)
  /\ LastOf(system.buffer_lines[loc.o2_buffer].queue) = loc.o2_body
  /\ Len(system.buffer_lines[loc.o2_buffer].queue) >= 2
  /\ is_fully_of_color(system, loc.o2_buffer, loc.o2_body.color)
  /\ \E e \in Lines :
       /\ InSeq(e, O2_BUFFERS)
       /\ e < loc.o2_buffer
       /\ ~is_full(system.buffer_lines[e])
       /\ system.buffer_lines[e].is_available_input
       /\ ends_with_color(system, e, loc.o2_body.color)
       /\ ~is_fully_of_color(system, e, loc.o2_body.color)

\* every line of the O2 group is full or input-closed
Pressure(sys) ==
  \A l \in Lines :
    InSeq(l, O2_BUFFERS) =>
      \/ Len(sys.buffer_lines[l].queue) >= sys.buffer_lines[l].capacity
      \/ ~sys.buffer_lines[l].is_available_input

\* the eligible lines whose head has the colour c
HeadMatches(sys, c) ==
  {l \in Lines : Eligible(sys, l) /\ Head(sys.buffer_lines[l].queue).color = c}

\* l has the fewest free slots among the lines of C, and the lowest id
\* among those with as few
TightestOf(sys, C, l) ==
  /\ l \in C
  /\ \A k \in C :
       LET fl == sys.buffer_lines[l].capacity - Len(sys.buffer_lines[l].queue)
           fk == sys.buffer_lines[k].capacity - Len(sys.buffer_lines[k].queue)
       IN fl < fk \/ (fl = fk /\ l <= k)

\* C32: outside pressure mode, with the conveyor's last colour set and an
\* eligible line whose head has it, the extractor selects such a line
\* (fewest free slots, lowest id on ties) and the extraction counts no
\* colour changeover.
C32_Continuity ==
  [][(/\ pc = "extract"
      /\ ~Pressure(system)
      /\ system.main_conveyor_last_color # None
      /\ HeadMatches(system, system.main_conveyor_last_color) # {})
       => /\ TightestOf(system,
                        HeadMatches(system, system.main_conveyor_last_color),
                        loc'.selected_buffer_id)
          /\ system'.color_changeovers = system.color_changeovers
          /\ system'.total_penalty_time = system.total_penalty_time
          /\ system'.main_conveyor_last_color = system.main_conveyor_last_color
          /\ system'.total_processed = system.total_processed + 1]_vars

\* an extraction has just continued the conveyor's colour from the fuller
\* of two lines that offered it, the emptier one having the lower id, while
\* another line of the O2 group still had room
C32_Witness ==
  /\ pc = "rr_extract"
  /\ Len(system.main_conveyor_sequence) >= 2
  /\ LET last == LastOf(system.main_conveyor_sequence)
         sel == loc.selected_buffer_id
     IN /\ sel # None
        /\ last.buffer = sel
        /\ ~last.color_change
        /\ \E k \in Lines :
             /\ k < sel
             /\ k \in HeadMatches(system, last.color)
             /\ system.buffer_lines[k].capacity - Len(system.buffer_lines[k].queue)
                  > system.buffer_lines[sel].capacity
                      - Len(system.buffer_lines[sel].queue) - 1
        /\ \E o \in Lines :
             /\ InSeq(o, O2_BUFFERS)
             /\ o # sel
             /\ system.buffer_lines[o].is_available_input
             /\ ~is_full(system.buffer_lines[o])

\* the number of leading bodies of line l that have its head's colour
Run(sys, l) ==
  LET q == sys.buffer_lines[l].queue
  IN CHOOSE n \in 1..Len(q) :
       /\ \A i \in 1..n : q[i].color = q[1].color
       /\ n = Len(q) \/ q[n + 1].color # q[1].color

\* the longest head run of colour c over the eligible lines (0 if no
\* eligible line has a head of that colour)
MaxRun(sys, c) ==
  IF HeadMatches(sys, c) = {} THEN 0
  ELSE CHOOSE n \in {Run(sys, l) : l \in HeadMatches(sys, c)} :
         \A l \in HeadMatches(sys, c) : Run(sys, l) <= n

\* the best line of colour c: the first line with its longest head run
BestLine(sys, c) ==
  CHOOSE l \in HeadMatches(sys, c) :
    /\ Run(sys, l) = MaxRun(sys, c)
    /\ \A k \in HeadMatches(sys, c) : Run(sys, k) = MaxRun(sys, c) => l <= k

Free(sys, l) == sys.buffer_lines[l].capacity - Len(sys.buffer_lines[l].queue)

\* colour c comes before colour d in the order (free slots of the best
\* line ascending, head run descending, line id ascending)
TieBefore(sys, c, d) ==
  LET bc == BestLine(sys, c)
      bd == BestLine(sys, d)
  IN \/ Free(sys, bc) < Free(sys, bd)
     \/ Free(sys, bc) = Free(sys, bd) /\ Run(sys, bc) > Run(sys, bd)
     \/ Free(sys, bc) = Free(sys, bd) /\ Run(sys, bc) = Run(sys, bd) /\ bc < bd

\* the extractor does not continue the conveyor's colour: pressure mode,
\* no colour yet, or no eligible head of that colour
NoContinuity(sys) ==
  \/ Pressure(sys)
  \/ sys.main_conveyor_last_color = None
  \/ HeadMatches(sys, sys.main_conveyor_last_color) = {}

\* C33: in pressure mode, and whenever no continuity match exists, the
\* head colour of the selected line has the greatest maximal head run of
\* all colours over the eligible lines (ties by free slots of the best
\* line ascending, head run descending, line id ascending), and the
\* selected line has the fewest free slots among the eligible lines with
\* that head colour; the conveyor's last colour plays no part.
C33_MaxConnected ==
  [][(/\ pc = "extract"
      /\ NoContinuity(system)
      /\ \E l \in Lines : Eligible(system, l))
       => LET sel == loc'.selected_buffer_id
          IN /\ sel \in Lines
             /\ Eligible(system, sel)
             /\ LET c == Head(system.buffer_lines[sel].queue).color
                IN /\ \A d \in ALL_COLORS : MaxRun(system, d) <= MaxRun(system, c)
                   /\ \A d \in ALL_COLORS \ {c} :
                        MaxRun(system, d) = MaxRun(system, c)
                          => TieBefore(system, c, d)
                   /\ \A k \in HeadMatches(system, c) :
                        Free(system, sel) <= Free(system, k)]_vars

\* an extraction under pressure has just changed the conveyor's colour
\* although another eligible line offered the previous colour
C33_Witness ==
  /\ pc = "rr_extract"
  /\ Len(system.main_conveyor_sequence) >= 2
  /\ LET n == Len(system.main_conveyor_sequence)
         last == system.main_conveyor_sequence[n]
         before == system.main_conveyor_sequence[n - 1]
         sel == loc.selected_buffer_id
     IN /\ sel # None
        /\ last.buffer = sel
        /\ last.color_change
        /\ HeadMatches(system, before.color) \ {sel} # {}
        /\ \A o \in Lines :
             InSeq(o, O2_BUFFERS) =>
               \/ ~system.buffer_lines[o].is_available_input
               \/ Len(system.buffer_lines[o].queue) + (IF o = sel THEN 1 ELSE 0)
                    >= system.buffer_lines[o].capacity

\* the line at slot i (from 0) of a group
Slot(buffer_ids, i) == buffer_ids[i + 1]

\* all lines of the group are full in the baseline
RRGroupFull(sys, buffer_ids) ==
  \A i \in 1..Len(buffer_ids) :
    Len(sys.buffer_lines[buffer_ids[i]].queue)
      >= sys.buffer_lines[buffer_ids[i]].capacity

\* slot i holds the first non-full line met by the cyclic scan of the
\* group that starts at slot cursor
FirstFree(sys, buffer_ids, cursor, i) ==
  LET n == Len(buffer_ids)
      d == (i + n - cursor) % n
  IN /\ i \in 0..(n - 1)
     /\ ~is_full(sys.buffer_lines[Slot(buffer_ids, i)])
     /\ \A e \in 0..(d - 1) :
          is_full(sys.buffer_lines[Slot(buffer_ids, (cursor + e) % n)])

\* the line the baseline's placement step put a body of the tick into a
\* line of the group: the O1 body or the O2 body
RRPlacedIn(buffer_ids, o1_ret, o2_ret, l) ==
  /\ InSeq(l, buffer_ids)
  /\ o1_ret[1] = l \/ o2_ret = l

\* C34: the cursors stay within their group's slots; a placement step of
\* the baseline chooses in each group it places into the first non-full
\* line of the cyclic scan from the group's cursor and moves the cursor to
\* the slot after it (modulo the group size); a group that is full gets
\* no body and keeps its cursor.
C34_RoundRobinPlacement ==
  /\ [](/\ rr.o1_buffer_counter \in 0..(Len(O1_BUFFERS) - 1)
        /\ rr.o2_buffer_counter \in 0..(Len(O2_BUFFERS) - 1))
  /\ [][pc = "rr_place" =>
         /\ IF RRGroupFull(rr, O1_BUFFERS)
              THEN /\ rr'.o1_buffer_counter = rr.o1_buffer_counter
                   /\ ~InSeq(loc'.rr_o1_ret[1], O1_BUFFERS)
              ELSE \E i \in 0..(Len(O1_BUFFERS) - 1) :
                     /\ FirstFree(rr, O1_BUFFERS, rr.o1_buffer_counter, i)
                     /\ loc'.rr_o1_ret[1] = Slot(O1_BUFFERS, i)
                     /\ rr'.o1_buffer_counter = (i + 1) % Len(O1_BUFFERS)
         /\ IF RRGroupFull(rr, O2_BUFFERS)
              THEN /\ rr'.o2_buffer_counter = rr.o2_buffer_counter
                   /\ ~InSeq(loc'.rr_o1_ret[1], O2_BUFFERS)
                   /\ loc'.rr_o2_ret = None
              ELSE \E i \in 0..(Len(O2_BUFFERS) - 1) :
                     /\ FirstFree(rr, O2_BUFFERS, rr.o2_buffer_counter, i)
                     /\ \/ loc'.rr_o1_ret[1] = Slot(O2_BUFFERS, i)
                        \/ loc'.rr_o2_ret = Slot(O2_BUFFERS, i)
                     /\ rr'.o2_buffer_counter = (i + 1) % Len(O2_BUFFERS)]_vars

\* a placement step of the baseline has just found both groups full: no
\* body was placed and the cursors are where they were, off slot 0
C34_Witness ==
  /\ pc = "extract"
  /\ loc.rr_o1_ret[1] = None
  /\ loc.rr_o2_ret = None
  /\ RRGroupFull(rr, O1_BUFFERS)
  /\ RRGroupFull(rr, O2_BUFFERS)
  /\ rr.o1_buffer_counter = Len(O1_BUFFERS) - 1
  /\ rr.o2_buffer_counter = Len(O2_BUFFERS) - 1

\* line l is the first non-empty line met by the cyclic scan of all lines
\* of the baseline that starts at slot cursor (line l is at slot l - 1)
FirstNonEmpty(sys, cursor, l) ==
  LET d == (l - 1 + NumLines - cursor) % NumLines
  IN /\ l \in Lines
     /\ sys.buffer_lines[l].queue # << >>
     /\ \A e \in 0..(d - 1) :
          sys.buffer_lines[((cursor + e) % NumLines) + 1].queue = << >>

\* C35: the baseline's extraction selects the first non-empty line of the
\* cyclic scan over all lines from its cursor, takes that line's head and
\* moves the cursor to the slot after the line (modulo the number of
\* lines); with every line empty it selects nothing and leaves the cursor
\* and the lines unchanged.
C35_RoundRobinExtraction ==
  [][pc = "rr_extract" =>
       IF \A l \in Lines : rr.buffer_lines[l].queue = << >>
         THEN /\ loc'.rr_selected_buffer_id = None
              /\ rr' = rr
         ELSE \E l \in Lines :
                /\ FirstNonEmpty(rr, rr.conveyor_buffer_counter, l)
                /\ loc'.rr_selected_buffer_id = l
                /\ rr'.conveyor_buffer_counter = l % NumLines
                /\ rr'.buffer_lines[l].queue = Tail(rr.buffer_lines[l].queue)
                /\ \A k \in Lines \ {l} : rr'.buffer_lines[k] = rr.buffer_lines[k]
                /\ rr'.total_processed = rr.total_processed + 1]_vars

\* the baseline's extraction has just found every line empty: nothing
\* selected, nothing processed, the cursor still off slot 0
C35_Witness ==
  /\ pc = "rerun"
  /\ loc.rr_selected_buffer_id = None
  /\ \A l \in Lines : rr.buffer_lines[l].queue = << >>
  /\ rr.conveyor_buffer_counter = NumLines - 1
  /\ rr.total_processed = 0

\* the body is in some line of the engine
Resident(sys, body) ==
  \E l \in Lines : \E i \in 1..Len(sys.buffer_lines[l].queue) :
    sys.buffer_lines[l].queue[i] = body

\* C36: the baseline's place_for_o2 returns None and changes nothing
\* while o2Stopped is true; in a placement step in which the O1 body
\* crossed into the O2 group the O2 body is dropped (it is in no line and
\* the O2 cursor is the slot after the O1 body's line), and otherwise the
\* O2 body goes to the first non-full line of the cyclic scan of the O2
\* group from its cursor, or nowhere if the group is full.
C36_RoundRobinPlaceO2 ==
  /\ [](rr.o2Stopped =>
          rr_place_for_o2(rr, loc.rr_o2_body) = [sys |-> rr, ret |-> None])
  /\ [][pc = "rr_place" =>
         LET n == Len(O2_BUFFERS)
             crossed == loc'.rr_o1_ret[2]
         IN /\ crossed = (RRGroupFull(rr, O1_BUFFERS) /\ ~RRGroupFull(rr, O2_BUFFERS))
            /\ rr'.o2Stopped = crossed
            /\ IF crossed
                 THEN /\ loc'.rr_o2_ret = None
                      /\ ~Resident(rr', loc.rr_o2_body)
                      /\ \E i \in 0..(n - 1) :
                           /\ loc'.rr_o1_ret[1] = Slot(O2_BUFFERS, i)
                           /\ rr'.o2_buffer_counter = (i + 1) % n
                      /\ SumLen(rr', NumLines) = SumLen(rr, NumLines) + 1
                 ELSE IF RRGroupFull(rr, O2_BUFFERS)
                 THEN /\ loc'.rr_o2_ret = None
                      /\ ~Resident(rr', loc.rr_o2_body)
                      /\ rr'.o2_buffer_counter = rr.o2_buffer_counter
                 ELSE \E i \in 0..(n - 1) :
                        /\ FirstFree(rr, O2_BUFFERS, rr.o2_buffer_counter, i)
                        /\ loc'.rr_o2_ret = Slot(O2_BUFFERS, i)
                        /\ rr'.buffer_lines[Slot(O2_BUFFERS, i)].queue
                             = Append(rr.buffer_lines[Slot(O2_BUFFERS, i)].queue,
                                      loc.rr_o2_body)
                        /\ rr'.o2_buffer_counter = (i + 1) % n]_vars

\* the O1 body has just crossed into the O2 group and the O2 body of the
\* tick was dropped although a line of the O2 group still has room
C36_Witness ==
  /\ pc = "extract"
  /\ loc.rr_o1_ret[2]
  /\ rr.o2Stopped
  /\ loc.rr_o2_ret = None
  /\ ~loc.rr_o2_called
  /\ ~Resident(rr, loc.rr_o2_body)
  /\ ~RRGroupFull(rr, O2_BUFFERS)

\* body is the last body of line l
TailIs(sys, l, body) ==
  /\ sys.buffer_lines[l].queue # << >>
  /\ sys.buffer_lines[l].queue[Len(sys.buffer_lines[l].queue)] = body

\* C37: whenever place_for_o1, process_o2_temp_buffer or place_for_o2 has
\* just returned a line (not None, not the temp buffer), the body it was
\* given is the tail of that line's queue, whatever the gates are.
C37_ReturnFaithful ==
  /\ (pc = "drain" /\ loc.o1_ret[1] # None)
       => TailIs(system, loc.o1_ret[1], loc.o1_body)
  /\ (pc = "place_o2" /\ loc.temp_processed[2] # None)
       => TailIs(system, loc.temp_processed[2], loc.temp_processed[1])
  /\ (pc = "rr_place" /\ loc.o2_buffer # None /\ loc.o2_buffer # TMP_BUFFER)
       => TailIs(system, loc.o2_buffer, loc.o2_body)

\* C38: in both engines the penalty time is the number of O1 crossings
\* times the crossing penalty plus the number of colour changeovers times
\* the changeover penalty (both penalties are 1), and total_processed,
\* color_changeovers, penaltyCount and total_penalty_time never decrease.
C38_PenaltyAccounting ==
  /\ [](/\ system.total_penalty_time
             = system.penaltyCount * PENALTY_TIME_O1_L5_L9
                 + system.color_changeovers * PENALTY_TIME_COLOR_CHANGE
        /\ system.total_penalty_time
             = system.penaltyCount + system.color_changeovers
        /\ rr.total_penalty_time
             = rr.penaltyCount * PENALTY_TIME_O1_L5_L9
                 + rr.color_changeovers * PENALTY_TIME_COLOR_CHANGE
        /\ rr.total_penalty_time = rr.penaltyCount + rr.color_changeovers)
  /\ [][/\ system'.total_processed >= system.total_processed
         /\ system'.color_changeovers >= system.color_changeovers
         /\ system'.penaltyCount >= system.penaltyCount
         /\ system'.total_penalty_time >= system.total_penalty_time
         /\ rr'.total_processed >= rr.total_processed
         /\ rr'.color_changeovers >= rr.color_changeovers
         /\ rr'.penaltyCount >= rr.penaltyCount
         /\ rr'.total_penalty_time >= rr.total_penalty_time]_vars

\* a tick has ended with both kinds of penalty counted in both engines
C38_Witness ==
  /\ AtTickEnd
  /\ system.penaltyCount >= 1
  /\ system.color_changeovers >= 1
  /\ rr.penaltyCount >= 1
  /\ rr.color_changeovers >= 1
  /\ system.total_penalty_time >= 2
  /\ rr.total_penalty_time >= 2

\* C39: if the temp buffer holds n >= 2 bodies when a tick starts, it
\* holds at least n when the tick ends and is never empty during the
\* tick: the tick drains at most one body and, the buffer still being
\* non-empty, appends the new O2 body. A backlog that is empty at the end
\* of a tick and was not at its start was a backlog of exactly one.
C39_BacklogStays ==
  /\ (ticks > 0 /\ hist.tick_start.temp_len >= 2)
       => /\ Len(system.o2_temp_buffer) >= hist.tick_start.temp_len - 1
          /\ AtTickEnd
               => Len(system.o2_temp_buffer) >= hist.tick_start.temp_len
  /\ (AtTickEnd /\ system.o2_temp_buffer = << >>)
       => hist.tick_start.temp_len <= 1

\* a tick that started with two bodies in the temp buffer has drained one
\* of them into a line, appended its own O2 body, and ended with two
C39_Witness ==
  /\ AtTickEnd
  /\ hist.tick_start.temp_len = 2
  /\ Len(system.o2_temp_buffer) = 2
  /\ loc.temp_processed[2] # None
  /\ loc.o2_buffer = TMP_BUFFER
  /\ LastOf(system.o2_temp_buffer) = loc.o2_body

\* the lines of a group that hold a body of the given oven origin
Residents(sys, buffer_ids, origin) ==
  {l \in Lines :
     /\ InSeq(l, buffer_ids)
     /\ \E i \in 1..Len(sys.buffer_lines[l].queue) :
          sys.buffer_lines[l].queue[i].source_oven = origin}

\* C40: in both engines no body that came from oven O2 is resident in a
\* line of the O1 group, in any state; bodies from oven O1 are the only
\* ones found outside their own group.
C40_RoutingRestriction ==
  /\ Residents(system, O1_BUFFERS, "O2") = {}
  /\ Residents(rr, O1_BUFFERS, "O2") = {}
  /\ \A l \in Lines : \A i \in 1..Len(system.buffer_lines[l].queue) :
       system.buffer_lines[l].queue[i].source_oven \in {"O1", "O2"}
  /\ \A l \in Lines : \A i \in 1..Len(rr.buffer_lines[l].queue) :
       rr.buffer_lines[l].queue[i].source_oven \in {"O1", "O2"}

\* at the end of a tick both engines hold a body from O1 in a line of the
\* O2 group, next to bodies from O2, and bodies in the O1 group
C40_Witness ==
  /\ AtTickEnd
  /\ Residents(system, O2_BUFFERS, "O1") # {}
  /\ Residents(system, O2_BUFFERS, "O2") # {}
  /\ Residents(system, O1_BUFFERS, "O1") # {}
  /\ Residents(rr, O2_BUFFERS, "O1") # {}
  /\ Residents(rr, O2_BUFFERS, "O2") # {}
  /\ Residents(rr, O1_BUFFERS, "O1") # {}

====
